---- MODULE Spec2Model ----
(***************************************************************************)
(* IFS-Studio render pipeline: the accumulation ping-pong buffer, the      *)
(* transform-feedback particle store, and the two render workers           *)
(* (the scheduler worker with renderSim, and the dual-population worker    *)
(* with the respawn controller).                                           *)
(*                                                                         *)
(* Numbers.  View scale and offset are held in twelfths (ViewDen), which   *)
(* makes the fitted scale 2 / extent / 1.2 an integer for the extents of   *)
(* the particle lattice.  Probabilities are exact rationals <<num, den>>.  *)
(* A texture is held as its total density, saturating at MaxDensity.       *)
(***************************************************************************)
EXTENDS Integers, Sequences, FiniteSets, TLC

VARIABLES
  variant,               \* which RenderWorker class runs: "sched" or "dual"
  env,                   \* what the browser lets init do, fixed for the session
  gl,                    \* RenderWorker.gl is non-null
  preset,                \* RenderWorker.preset
  simParams,             \* RenderWorker.simParams
  renderParams,          \* RenderWorker.renderParams
  loopHandle,            \* RenderWorker.loopHandle
  timers,                \* pending timer callbacks of the worker scope: id -> due time
  now,                   \* performance.now()
  lastFrameStart,        \* RenderWorker.lastFrameStart
  postprocess,           \* RenderWorker.postprocess
  pointProgram,          \* RenderWorker.pointProgram
  sim,                   \* RenderWorker.sim (scheduler worker)
  simGlobal,             \* RenderWorker.simGlobal (dual-population worker)
  simLocal,              \* RenderWorker.simLocal (dual-population worker)
  accumulate,            \* RenderWorker.accumulate (an AccumulatePass)
  frameIndex,            \* RenderWorker.frameIndex
  respawnBoostFrames,    \* RenderWorker.respawnBoostFrames
  respawnSeedsCache,     \* RenderWorker.respawnSeedsCache
  respawnInViewFraction, \* RenderWorker.respawnInViewFraction, <<inView, total>>
  lastView,              \* RenderWorker.lastView
  out,                   \* events posted to the UI by the last handler
  ops,                   \* GPU operations issued by the last handler, in order
  cmd,                   \* the last handler that ran
  disposed,              \* a dispose command ran and no init since
  accTrace,              \* textures touched by the last AccumulatePass call
  timerExt,              \* RenderWorker.timerExt is non-null
  pendingTimerQueries,   \* RenderWorker.pendingTimerQueries
  gpuTimerLabel,         \* RenderWorker.gpuTimerLabel: query -> stage label
  glQueries,             \* the query objects of the GL context, with what was done to each
  uiPreset,              \* the preset state of the UI (App)
  updateTimer,           \* Canvas.updateTimer holds a pending debounce timer
  toWorker,              \* messages posted to the worker, not yet handled
  toMain                 \* messages posted by the worker, not yet handled by the UI

timerVars == <<timerExt, pendingTimerQueries, gpuTimerLabel, glQueries>>
uiVars == <<uiPreset, updateTimer, toWorker, toMain>>

rendererVars == <<variant, env, gl, preset, simParams, renderParams, loopHandle, timers,
                  now, lastFrameStart, postprocess, pointProgram, sim, simGlobal,
                  simLocal, frameIndex, respawnBoostFrames, respawnSeedsCache,
                  respawnInViewFraction, lastView, out, ops, cmd, disposed>>
workerVars == <<timerVars, uiVars, rendererVars>>

vars == <<timerVars, uiVars, variant, env, gl, preset, simParams, renderParams, loopHandle, timers,
          now, lastFrameStart, postprocess, pointProgram, sim, simGlobal,
          simLocal, accumulate, frameIndex, respawnBoostFrames, respawnSeedsCache,
          respawnInViewFraction, lastView, out, ops, cmd, disposed, accTrace>>

NULL == [null |-> TRUE]           \* a null object reference
NoHandle == 1 - 1                  \* loopHandle === null (timer ids start at 1)
NoPost == "null"                   \* postprocess === null

----------------------------------------------------------------------------
(* Bounds of the model *)

MaxDensity == 2        \* saturation of a texture's total density
Horizon == 2           \* instants more than this many ms in the past are told apart no further
MaxAge == 1            \* particle ages saturate here
MaxFrame == 3          \* ticks and warmups stop once frameIndex reaches this
MaxBoostFrame == 33    \* the same, in the specification of the respawn boost

----------------------------------------------------------------------------
(* Small arithmetic *)

Min(a, b) == IF a < b THEN a ELSE b
Max(a, b) == IF a > b THEN a ELSE b
Abs(a) == IF a < 0 THEN -a ELSE a
Sat(d) == Min(d, MaxDensity)

----------------------------------------------------------------------------
(* AccumulatePass: two density textures and a read index *)

DecayDen == 1 + 1                      \* decay values are halves
Decays == {0, 1, 2}                \* decay 0, 1/2 and 1

ZeroTex == [i \in {0, 1} |-> 0]

\* createTargets: two fresh (zero-filled) textures, readIndex back to 0
CreateTargets(a) == [a EXCEPT !.textures = TRUE, !.tex = ZeroTex, !.readIndex = 0]

\* constructor -> init: createDecayProgram, createTargets
NewAccumulatePass ==
  CreateTargets([textures |-> FALSE, decayProgram |-> TRUE, tex |-> ZeroTex, readIndex |-> 0])

disposeTextures(a) == [a EXCEPT !.textures = FALSE, !.tex = ZeroTex]

AccResize(a) == CreateTargets(disposeTextures(a))

MutWriteIndex(a) == a.readIndex
WriteIndex(a) == (a.readIndex + 1) % 2

\* beginFrame: write = decay * read, rendered into fbos[writeIndex]
beginFrame(a, decay) ==
  IF ~a.textures \/ ~a.decayProgram THEN a
  ELSE [a EXCEPT !.tex[WriteIndex(a)] = (decay * a.tex[a.readIndex]) \div DecayDen]

\* drawPoints: additive blend of n fragments into fbos[writeIndex]
drawPoints(a, n) ==
  IF ~a.textures THEN a
  ELSE [a EXCEPT !.tex[WriteIndex(a)] = Sat(@ + n)]

endFrame(a) == [a EXCEPT !.readIndex = (a.readIndex + 1) % 2]

MutClear(a) == IF ~a.textures THEN a ELSE [a EXCEPT !.tex[0] = 0]
clear(a) == IF ~a.textures THEN a ELSE [a EXCEPT !.tex = ZeroTex]

AccDispose(a) == [disposeTextures(a) EXCEPT !.decayProgram = FALSE]

----------------------------------------------------------------------------
(* Views and particles *)

ViewDen == 2 * 6                      \* view scale and offset are in twelfths

View(s, x, y) == [scale |-> s, offset |-> [x |-> x, y |-> y]]
DefaultView == View(ViewDen, 0, 0)             \* { scale: 1, offset: { x: 0, y: 0 } }

\* the particle lattice: the cell of the origin and a cell two units to its right
World == {<<0, 0>>, <<2, 0>>}

Particle(x, y, age) == [x |-> x, y |-> y, age |-> age]

\* clip = p * viewScale + viewOffset, in twelfths
ClipX(p, scale, offset) == p.x * scale + offset.x
ClipY(p, scale, offset) == p.y * scale + offset.y
OutOfClip(p, scale, offset) ==
  Abs(ClipX(p, scale, offset)) > ViewDen \/ Abs(ClipY(p, scale, offset)) > ViewDen

----------------------------------------------------------------------------
(* Exact rationals <<num, den>>, den > 0 *)

RLess(a, b) == a[1] * b[2] < b[1] * a[2]
REq(a, b) == a[1] * b[2] = b[1] * a[2]
RMax(a, b) == IF RLess(a, b) THEN b ELSE a
RMin(a, b) == IF RLess(b, a) THEN b ELSE a
RZero == <<0, 1>>
ROne == <<1, 1>>

----------------------------------------------------------------------------
(* TransformFeedbackSim: two particle buffers and a read index *)

SeedSlots == 32                    \* u_respawnSeeds[32]

\* initBuffers: the seeded scatter lies within 0.05 of the origin, age 0
Scatter(n) == [i \in 1..Max(1, n) |-> Particle(0, 0, 0)]

initBuffers(s) ==
  [s EXCEPT !.buffers = TRUE,
            !.buf = [i \in {0, 1} |-> Scatter(s.numPoints)],
            !.readIndex = 0]

disposeBuffers(s) == [s EXCEPT !.buffers = FALSE, !.buf = [i \in {0, 1} |-> <<>>]]

\* constructor: initProgram, initBuffers
NewSim(numPoints, seed, population, iters) ==
  initBuffers([program |-> TRUE, buffers |-> FALSE, buf |-> [i \in {0, 1} |-> <<>>],
               readIndex |-> 0, numPoints |-> numPoints, seed |-> seed,
               population |-> population, itersPerStep |-> Max(1, iters),
               maps |-> "none", viewScale |-> ViewDen, viewOffset |-> [x |-> 0, y |-> 0],
               respawnProb |-> RZero,
               respawnSeeds |-> <<>>,
               respawnSeedCount |-> 0])

MutSetParams(s, numPoints, seed, iters) ==
  initBuffers(disposeBuffers([s EXCEPT !.numPoints = numPoints, !.seed = seed,
                                       !.itersPerStep = Max(1, iters)]))
\* setParams: the buffers are created anew only when numPoints changes
setParams(s, numPoints, seed, iters) ==
  LET t == [s EXCEPT !.numPoints = numPoints, !.seed = seed, !.itersPerStep = Max(1, iters)]
  IN IF numPoints = s.numPoints THEN t
     ELSE IF s.program THEN initBuffers(disposeBuffers(t))
     ELSE disposeBuffers(t)          \* context lost: createBuffer fails, initBuffers throws

MutSetMaps(s, maps) == initBuffers(disposeBuffers([s EXCEPT !.maps = maps]))
\* setMaps: the uniforms of the maps are uploaded; the buffers are not touched
setMaps(s, maps) == [s EXCEPT !.maps = maps]

setView(s, view) == [s EXCEPT !.viewScale = view.scale, !.viewOffset = view.offset]

\* setRespawnProb: clamped to [0, 1]
setRespawnProb(s, p) == [s EXCEPT !.respawnProb = RMax(RZero, RMin(ROne, p))]

\* The uniform array respawnSeeds (3 * SeedSlots floats, zero at construction) is held as
\* its prefix up to the last float ever written; float k is element k + 1.
SeedFloat(arr, k) == IF k < Len(arr) THEN arr[k + 1] ELSE 0
PutFloat(arr, k, v) ==
  IF k < Len(arr) THEN [arr EXCEPT ![k + 1] = v]
  ELSE arr \o [j \in 1..(k - Len(arr)) |-> 0] \o <<v>>

\* setRespawnSeeds: seed i is written at floats 2i, 2i+1, 2i+2 of the uniform array
RECURSIVE WriteSeeds(_, _, _, _)
WriteSeeds(arr, seeds, i, count) ==
  IF i >= count THEN arr
  ELSE WriteSeeds(PutFloat(PutFloat(PutFloat(arr, i * 2, seeds[i + 1].x),
                                    i * 2 + 1, seeds[i + 1].y),
                           i * 2 + 2, seeds[i + 1].age),
                  seeds, i + 1, count)

setRespawnSeeds(s, seeds) ==
  LET count == Min(SeedSlots, Len(seeds))
  IN [s EXCEPT !.respawnSeedCount = count,
               !.respawnSeeds = WriteSeeds(s.respawnSeeds, seeds, 0, count)]

SimDispose(s) == [disposeBuffers(s) EXCEPT !.program = FALSE]

SimLive(s) == s.program /\ s.buffers

\* the vec3 the kernel reads as u_respawnSeeds[j]
SeedAt(s, j) ==
  Particle(SeedFloat(s.respawnSeeds, 3 * j), SeedFloat(s.respawnSeeds, 3 * j + 1),
           SeedFloat(s.respawnSeeds, 3 * j + 2))

Aged(p) == [p EXCEPT !.age = Min(p.age + 1, MaxAge)]

\* The affine step of the kernel.  The map applied to a particle is picked by a hash
\* of the particle index and the seed; the two map sets of the model are
\*   mapsA: one contraction onto the cell (2, 0);
\*   mapsB: two contractions, onto (0, 0) and (2, 0), the hash sending odd particles
\*          to the first and even particles to the second.
MapImage(maps, i, p) ==
  IF maps = "mapsA" THEN [p EXCEPT !.x = 2, !.y = 0]
  ELSE IF maps = "mapsB" THEN [p EXCEPT !.x = IF i % 2 = 1 THEN 0 ELSE 2, !.y = 0]
  ELSE p

\* One sub-iteration of the kernel for particle i: the affine step; a particle that
\* left the viewport may, when respawnProb > 0, be replaced by a seed of the pool or,
\* with an empty pool, by a point of the viewport at age 0; then the age counts up.
\* The scheduler worker (population "single") never sets a respawn probability and
\* nothing in it reads the age, which is left out for its particles.
SubIter(s, i, p) ==
  LET moved == MapImage(s.maps, i, p)
      spawn == {Particle(w[1], w[2], 0) : w \in
                  {v \in World : ~OutOfClip(Particle(v[1], v[2], 0), s.viewScale, s.viewOffset)}}
      pool == {SeedAt(s, j) : j \in 0..(s.respawnSeedCount - 1)}
      respawn == IF s.respawnProb[1] > 0 /\ OutOfClip(moved, s.viewScale, s.viewOffset)
                 THEN (IF s.respawnSeedCount > 0 THEN pool ELSE spawn)
                 ELSE {}
  IN IF s.population = "single" THEN {moved}
     ELSE {Aged(q) : q \in {moved} \cup respawn}

RECURSIVE Iterate(_, _, _, _)
Iterate(s, i, p, k) ==
  IF k = 0 THEN {p} ELSE UNION {SubIter(s, i, q) : q \in Iterate(s, i, p, k - 1)}

\* every buffer content one step (itersPerStep sub-iterations per particle) can write
RECURSIVE Outcomes(_, _, _)
Outcomes(s, src, i) ==
  IF i > Len(src) THEN {<<>>}
  ELSE {<<h>> \o t : h \in Iterate(s, i, src[i], s.itersPerStep),
                     t \in Outcomes(s, src, i + 1)}

StepOutcomes(s) == Outcomes(s, s.buf[s.readIndex], 1)

MutStep(s, b) ==
  IF ~SimLive(s) THEN s
  ELSE [s EXCEPT !.buf[(s.readIndex + 1) % 2] = b,
                 !.readIndex = (s.readIndex + s.itersPerStep) % 2]
\* step: read buffers[readIndex], write the other buffer, then flip readIndex
step(s, b) ==
  IF ~SimLive(s) THEN s
  ELSE [s EXCEPT !.buf[(s.readIndex + 1) % 2] = b, !.readIndex = (s.readIndex + 1) % 2]

\* the particles the renderer and the samplers read
Particles(s) == IF s.buffers THEN s.buf[s.readIndex] ELSE <<>>

----------------------------------------------------------------------------
(* The worker before any message: every field at its declared initial value *)

NoRatio == <<0, 1>>

\* where init fails in this session: nowhere, at getContext (no WebGL2), or in the
\* last of the constructors (the point program does not compile or link)
FailStages == {"none", "context", "pointProgram"}

\* no AccumulatePass call traced
NoTex == 0 - 1
NoTrace == [op |-> "none", wrote |-> NoTex, sampled |-> NoTex, returned |-> NoTex,
            frameWrote |-> NoTex, ended |-> FALSE]

\* the fields of a RenderWorker after construction, the environment apart
WorkerState(v) ==
  /\ variant = v
  /\ gl = FALSE
  /\ preset = NULL
  /\ simParams = NULL
  /\ renderParams = NULL
  /\ loopHandle = NoHandle
  /\ timers = {}
  /\ now = Horizon + 1
  /\ lastFrameStart = 0
  /\ postprocess = NoPost
  /\ pointProgram = FALSE
  /\ sim = NULL
  /\ simGlobal = NULL
  /\ simLocal = NULL
  /\ frameIndex = 0
  /\ respawnBoostFrames = 0
  /\ respawnSeedsCache = <<>>
  /\ respawnInViewFraction = NoRatio
  /\ lastView = NULL
  /\ out = <<>>
  /\ ops = <<>>
  /\ cmd = "none"
  /\ disposed = FALSE
  /\ timerExt = FALSE
  /\ pendingTimerQueries = <<>>
  /\ gpuTimerLabel = <<>>
  /\ glQueries = <<>>

\* no UI is modelled: nothing is posted to the worker and nothing it posts is delivered
NoUi ==
  /\ uiPreset = NULL
  /\ updateTimer = FALSE
  /\ toWorker = <<>>
  /\ toMain = <<>>

WorkerFields(v) ==
  /\ env \in FailStages
  /\ WorkerState(v)
  /\ NoUi

----------------------------------------------------------------------------
(* Messages and environment *)

MapSets == {"mapsA", "mapsB"}                  \* preset.maps, by its JSON text
InputViews == {DefaultView, View(6, 0, 0)}     \* scale 1 and scale 1/2
PointCounts == {1, 2}                          \* sim.numPoints
StepCounts == {0, 2}                           \* sim.simStepsPerTick
Warmups == {0, 1}                              \* fitView warmup

Preset(maps, view) == [maps |-> maps, view |-> view]
\* burnIn 1, seed 42, maxPostFps 500 (a frame every 2 ms at most)
SimParams(numPoints, steps) ==
  [numPoints |-> numPoints, burnIn |-> 1, seed |-> 42, simStepsPerTick |-> steps,
   maxPostFps |-> 500]

\* the messages of the model differ from a base configuration in one setting at a time
Presets == {Preset(m, v) : m \in MapSets, v \in InputViews} \ {Preset("mapsB", View(6, 0, 0))}
SimParamsSet == {SimParams(n, k) : n \in PointCounts, k \in StepCounts} \ {SimParams(2, 2)}
DualSimParamsSet == {SimParams(n, 1) : n \in PointCounts}
RenderParamsSet == [decay : {1}]                \* decay 1/2

----------------------------------------------------------------------------
(* Timers of the worker scope *)

FreeId == CHOOSE i \in 1..(Cardinality(timers) + 1) : \A t \in timers : t.id # i

\* setTimeout(cb, delay): a new pending callback; returns its id
SetTimeout(ts, id, delay) == ts \cup {[id |-> id, due |-> now + delay]}

\* clearTimeout(id)
ClearTimeout(ts, id) == {t \in ts : t.id # id}

----------------------------------------------------------------------------
(* Shared pieces of both workers *)

InClipCount(parts, view) ==
  Cardinality({i \in 1..Len(parts) : ~OutOfClip(parts[i], view.scale, view.offset)})

\* the point program with the age attribute bound (points.vert.glsl, points.frag.glsl):
\* a point outside clip space is clipped, and one with a_age < u_burnInFrames gets
\* point size 0 and its fragment is discarded
PointVisible(p, view, burnInFrames) ==
  ~OutOfClip(p, view.scale, view.offset) /\ ~(p.age < burnInFrames)
Splatted(parts, view, burnInFrames) ==
  {i \in 1..Len(parts) : PointVisible(parts[i], view, burnInFrames)}

\* sampleBounds: axis-aligned min/max of the read buffer; (-1,-1)..(1,1) without buffers
sampleBounds(s) ==
  LET parts == Particles(s)
      xs == {parts[i].x : i \in 1..Len(parts)}
      ys == {parts[i].y : i \in 1..Len(parts)}
      lo(S) == CHOOSE m \in S : \A e \in S : m <= e
      hi(S) == CHOOSE m \in S : \A e \in S : m >= e
  IN IF ~s.buffers \/ Len(parts) = 0
     THEN [min |-> [x |-> -1, y |-> -1], max |-> [x |-> 1, y |-> 1]]
     ELSE [min |-> [x |-> lo(xs), y |-> lo(ys)], max |-> [x |-> hi(xs), y |-> hi(ys)]]

TinyScale == 20 * 1000000              \* 2 / 1e-6 / 1.2, in twelfths

MutFitOf(bounds) ==
  LET extent == Max(bounds.max.x - bounds.min.x, bounds.max.y - bounds.min.y)
      scale == IF extent = 0 THEN TinyScale ELSE (20 \div extent)
  IN View(scale, ((bounds.max.x + bounds.min.x) * scale) \div 2,
          ((bounds.max.y + bounds.min.y) * scale) \div 2)
\* fitView: scale = 2 / max(width, height || 1e-6) / FIT_VIEW_MARGIN, offset = -c * scale
FitOf(bounds) ==
  LET width == bounds.max.x - bounds.min.x
      height == bounds.max.y - bounds.min.y
      cx2 == bounds.max.x + bounds.min.x
      cy2 == bounds.max.y + bounds.min.y
      extent == Max(width, height)
      scale == IF extent = 0 THEN TinyScale ELSE (20 \div extent)
  IN View(scale, -((cx2 * scale) \div 2), -((cy2 * scale) \div 2))

MutViewChanged(prevView, view) == TRUE
MutViewSame(prevView, view) == FALSE
\* handleFitRequest: !prevView || prevView.scale !== view.scale || an offset differs
ViewChanged(prevView, view) ==
  \/ prevView.scale # view.scale
  \/ prevView.offset.x # view.offset.x
  \/ prevView.offset.y # view.offset.y

MutResetAccumulation(a) == a
\* resetAccumulation: this.accumulate?.clear()
resetAccumulation(a) == IF a = NULL THEN NULL ELSE clear(a)

----------------------------------------------------------------------------
(* Scheduler worker (second RenderWorker class: sim, renderSim, frame throttle) *)

SchedIters == 16                   \* simParams.itersPerStep ?? 16

\* recreateSim: dispose the old sim, construct a new one, upload maps and view,
\* frameIndex = 0; returns the new value of this.sim
recreateSim(p, sp) ==
  setView(setMaps(NewSim(sp.numPoints, sp.seed, "single", SchedIters), p.maps), p.view)

MutComputeFrameDelay(t) == 0
\* computeFrameDelay
computeFrameDelay(t) ==
  LET maxFps == Max(1, simParams.maxPostFps)
      minInterval == 1000 \div maxFps
      elapsed == t - lastFrameStart
  IN IF lastFrameStart <= 0 THEN 0
     ELSE IF elapsed < minInterval THEN minInterval - elapsed ELSE 0

MutTickSteps(sp) == sp.simStepsPerTick
\* Math.max(1, simStepsPerTick)
TickSteps(sp) == Max(1, sp.simStepsPerTick)

\* the loop of renderSim over the kernel steps: step, bindForRender, drawPoints when
\* frameIndex >= burnIn, frameIndex++
RECURSIVE SimStepsLoop(_, _, _, _)
SimStepsLoop(st, k, burnIn, view) ==
  IF k = 0 THEN {st}
  ELSE UNION {
         LET s2 == step(st.sim, b)
             drawn == st.frame >= burnIn
             a2 == IF drawn THEN drawPoints(st.acc, InClipCount(Particles(s2), view))
                   ELSE st.acc
             o2 == st.ops \o (IF SimLive(st.sim) THEN <<"step">> ELSE <<>>)
                          \o (IF drawn THEN <<"splat">> ELSE <<>>)
         IN SimStepsLoop([sim |-> s2, acc |-> a2, frame |-> st.frame + 1, ops |-> o2],
                         k - 1, burnIn, view)
         : b \in StepOutcomes(st.sim)}

\* renderSim, for a worker whose resources are all non-null
RenderSimResults ==
  LET steps == TickSteps(simParams)
      a1 == beginFrame(accumulate, renderParams.decay)
      looped == SimStepsLoop([sim |-> sim, acc |-> a1, frame |-> frameIndex,
                              ops |-> <<"decay">>],
                             steps, simParams.burnIn, preset.view)
  IN {[r EXCEPT !.acc = endFrame(r.acc), !.ops = r.ops \o <<"swap", "mip", "tonemap">>]
        : r \in looped}

----------------------------------------------------------------------------
(* GPU timer queries (beginGpuTimer, endGpuTimer, pollGpuTimers) *)

\* the browser offers EXT_disjoint_timer_query_webgl2 and every constructor succeeds
TimerEnv == "timerQuery"

MaxQueries == 5        \* gl.createQuery returns null once this many queries were created
NoQuery == 0           \* a null WebGLQuery

\* a query object just created and begun; deleted and samples count the deleteQuery and
\* recordGpuTime calls made for it, polled is what pollGpuTimers last read for it
NewQuery == [state |-> "active", deleted |-> 0, samples |-> 0, polled |-> "never",
             byDispose |-> FALSE]

TimerState == [pending |-> pendingTimerQueries, label |-> gpuTimerLabel,
               queries |-> glQueries]

MapDelete(f, q) == [x \in DOMAIN f \ {q} |-> f[x]]

\* beginGpuTimer(label), with a context
beginGpuTimer(ts, label, ext) ==
  IF ~ext \/ Len(ts.queries) >= MaxQueries THEN [ts |-> ts, q |-> NoQuery]
  ELSE LET q == Len(ts.queries) + 1
       IN [ts |-> [ts EXCEPT !.queries = Append(@, NewQuery),
                             !.label = @ @@ (q :> label)],
           q |-> q]

\* endGpuTimer(query), with a context
endGpuTimer(ts, q, ext) ==
  IF q = NoQuery \/ ~ext THEN ts
  ELSE [ts EXCEPT !.queries[q].state = "ended",
                  !.pending = IF q \in DOMAIN ts.label THEN Append(@, q) ELSE @]

\* the stages renderSim times, in order
FrameStages(steps) ==
  <<"decay">> \o [i \in 1..(2 * steps) |-> IF i % 2 = 1 THEN "sim" ELSE "accum"]
              \o <<"mipmap", "post">>

RECURSIVE TimeStages(_, _, _)
TimeStages(ts, stages, ext) ==
  IF stages = <<>> THEN ts
  ELSE LET b == beginGpuTimer(ts, Head(stages), ext)
       IN TimeStages(endGpuTimer(b.ts, b.q, ext), Tail(stages), ext)

\* what one pass of pollGpuTimers may read for a pending query: QUERY_RESULT_AVAILABLE
\* false, or true with GPU_DISJOINT_EXT false ("ok") or true ("disjoint"); a result once
\* available stays available
PollReads(ts) ==
  {r \in [1..Len(ts.pending) -> {"unavailable", "ok", "disjoint"}] :
     \A i \in 1..Len(ts.pending) :
       ts.queries[ts.pending[i]].state = "available" => r[i] # "unavailable"}

RECURSIVE PollLoop(_, _, _, _)
PollLoop(ts, reads, i, remaining) ==
  IF i > Len(ts.pending) THEN [ts EXCEPT !.pending = remaining]
  ELSE LET q == ts.pending[i]
           hasLabel == q \in DOMAIN ts.label
       IN IF reads[i] = "ok"
          THEN PollLoop([ts EXCEPT !.queries[q].state = "available",
                                   !.queries[q].polled = "ok",
                                   !.queries[q].samples = IF hasLabel THEN @ + 1 ELSE @,
                                   !.queries[q].deleted = @ + 1,
                                   !.label = MapDelete(@, q)],
                        reads, i + 1, remaining)
          ELSE IF reads[i] = "unavailable"
          THEN PollLoop([ts EXCEPT !.queries[q].polled = "unavailable"],
                        reads, i + 1, Append(remaining, q))
          ELSE PollLoop([ts EXCEPT !.queries[q].state = "available",
                                   !.queries[q].polled = "disjoint",
                                   !.queries[q].deleted = @ + 1,
                                   !.label = MapDelete(@, q)],
                        reads, i + 1, remaining)

MutPollGpuTimers(ts, reads, ext) ==
  IF ~ext \/ Len(ts.pending) = 0 THEN ts
  ELSE [PollLoop(ts, reads, 1, <<>>) EXCEPT !.pending = ts.pending]
\* pollGpuTimers, with a context
pollGpuTimers(ts, reads, ext) ==
  IF ~ext \/ Len(ts.pending) = 0 THEN ts
  ELSE PollLoop(ts, reads, 1, <<>>)

\* the timer queries of renderSim: every stage timed, then one poll
TimedFrames(ts, steps, ext) ==
  LET ended == TimeStages(ts, FrameStages(steps), ext)
  IN {pollGpuTimers(ended, reads, ext) : reads \in PollReads(ended)}

RECURSIVE DeleteQueries(_, _)
DeleteQueries(queries, pending) ==
  IF pending = <<>> THEN queries
  ELSE DeleteQueries([queries EXCEPT ![Head(pending)].deleted = @ + 1,
                                     ![Head(pending)].byDispose = TRUE],
                     Tail(pending))

\* the GPU finishes a timed stage: the result of its query becomes available
GpuFinish ==
  /\ \E q \in 1..Len(glQueries) :
       /\ glQueries[q].state = "ended"
       /\ glQueries[q].deleted = 0
       /\ glQueries' = [glQueries EXCEPT ![q].state = "available"]
  /\ UNCHANGED <<timerExt, pendingTimerQueries, gpuTimerLabel, uiVars, variant, env, gl,
                 preset, simParams, renderParams, loopHandle, timers, now, lastFrameStart,
                 postprocess, pointProgram, sim, simGlobal, simLocal, accumulate,
                 frameIndex, respawnBoostFrames, respawnSeedsCache,
                 respawnInViewFraction, lastView, out, ops, cmd, disposed, accTrace>>

RenderSimReady ==
  gl /\ postprocess # NoPost /\ sim # NULL /\ pointProgram /\ accumulate # NULL

\* the tick callback of startLoop
SchedTick ==
  /\ variant = "sched"
  /\ \E t \in timers :
       /\ t.due <= now
       /\ cmd' = "tick"
       /\ UNCHANGED <<timerExt, uiVars, variant, env, gl, preset, simParams, renderParams, now,
                      postprocess, pointProgram, simGlobal, simLocal, respawnBoostFrames,
                      respawnSeedsCache, respawnInViewFraction, lastView, disposed,
                      accTrace>>
       /\ IF ~gl
          THEN /\ loopHandle' = NoHandle
               /\ timers' = timers \ {t}
               /\ out' = <<>> /\ ops' = <<>>
               /\ UNCHANGED <<lastFrameStart, sim, accumulate, frameIndex,
                              pendingTimerQueries, gpuTimerLabel, glQueries>>
          ELSE IF computeFrameDelay(now) > 0
          THEN /\ loopHandle' = t.id
               /\ timers' = SetTimeout(timers \ {t}, t.id, computeFrameDelay(now))
               /\ out' = <<>> /\ ops' = <<>>
               /\ UNCHANGED <<lastFrameStart, sim, accumulate, frameIndex,
                              pendingTimerQueries, gpuTimerLabel, glQueries>>
          ELSE /\ loopHandle' = t.id
               /\ timers' = SetTimeout(timers \ {t}, t.id, 0)
               /\ IF RenderSimReady
                  THEN /\ frameIndex + TickSteps(simParams) <= MaxFrame
                       /\ lastFrameStart' = now
                       /\ \E r \in RenderSimResults, diag \in BOOLEAN :
                            /\ sim' = r.sim
                            /\ accumulate' = r.acc
                            /\ frameIndex' = r.frame
                            /\ ops' = r.ops
                            /\ out' = IF diag THEN <<"diag">> ELSE <<>>
                       /\ \E tf \in TimedFrames(TimerState, TickSteps(simParams), timerExt) :
                            /\ pendingTimerQueries' = tf.pending
                            /\ gpuTimerLabel' = tf.label
                            /\ glQueries' = tf.queries
                  ELSE /\ out' = <<>> /\ ops' = <<>>
                       /\ UNCHANGED <<lastFrameStart, sim, accumulate, frameIndex,
                                      pendingTimerQueries, gpuTimerLabel, glQueries>>

\* One millisecond passes.  Time is kept relative to the present: now stays put and
\* every recorded instant (lastFrameStart, the due times) moves one millisecond back.
\* An instant Horizon ms back stays there (computeFrameDelay cannot tell it from an
\* older one, the frame interval being at most Horizon) and an overdue timer stays due.
Advance ==
  /\ variant = "sched"
  /\ \/ \E t \in timers : t.due > now
     \/ lastFrameStart > 0 /\ now - lastFrameStart < Horizon
  /\ lastFrameStart' = IF lastFrameStart > 0 THEN Max(lastFrameStart - 1, now - Horizon)
                       ELSE lastFrameStart
  /\ timers' = {[id |-> t.id, due |-> Max(t.due - 1, now)] : t \in timers}
  /\ UNCHANGED <<timerVars, uiVars, variant, env, gl, preset, simParams, renderParams, loopHandle, now,
                 postprocess, pointProgram, sim, simGlobal, simLocal,
                 accumulate, frameIndex, respawnBoostFrames, respawnSeedsCache,
                 respawnInViewFraction, lastView, out, ops, cmd, disposed, accTrace>>

MutStartLoop(ts, h) == [timers |-> ts, handle |-> h]
\* startLoop (called with a context): schedules the tick unless a loop handle is held
startLoop(ts, h) ==
  IF h # NoHandle THEN [timers |-> ts, handle |-> h]
  ELSE [timers |-> SetTimeout(ts, FreeId, 0), handle |-> FreeId]

\* init(msg)
SchedInit(p, sp, rp) ==
  /\ variant = "sched"
  /\ cmd' = "init"
  /\ preset' = p /\ simParams' = sp /\ renderParams' = rp
  /\ lastView' = p.view
  /\ ops' = <<>>
  /\ UNCHANGED <<pendingTimerQueries, gpuTimerLabel, glQueries, variant, env, now,
                 lastFrameStart, simGlobal, simLocal,
                 respawnBoostFrames, respawnSeedsCache, respawnInViewFraction, accTrace>>
  /\ IF env = "context"
     THEN /\ out' = <<"error">>
          /\ UNCHANGED <<gl, loopHandle, timers, postprocess, pointProgram, sim,
                         accumulate, frameIndex, disposed, timerExt>>
     ELSE /\ gl' = TRUE
          /\ disposed' = FALSE
          /\ timerExt' = (env = TimerEnv)
          /\ postprocess' = "live"
          /\ accumulate' = NewAccumulatePass
          /\ sim' = recreateSim(p, sp)
          /\ frameIndex' = 0
          /\ IF env = "pointProgram"
             THEN /\ out' = <<"error">>
                  /\ UNCHANGED <<pointProgram, loopHandle, timers>>
             ELSE /\ pointProgram' = TRUE
                  /\ out' = <<"ready">>
                  /\ timers' = startLoop(timers, loopHandle).timers
                  /\ loopHandle' = startLoop(timers, loopHandle).handle

\* updateConfig(preset, sim, render); like init and handleFitRequest it says nothing of the
\* UI's state and the message queues, which the step that delivers the message settles
SchedUpdateConfig(p, sp, rp) ==
  LET viewChanged == preset = NULL \/ preset.view # p.view
      mapsChanged == preset = NULL \/ preset.maps # p.maps
      simChanged == \/ simParams = NULL
                    \/ simParams.numPoints # sp.numPoints
                    \/ simParams.seed # sp.seed
                    \/ simParams.burnIn # sp.burnIn
      recreate == (simChanged \/ sim = NULL) /\ gl
      \* setParams on a disposed sim whose point count differs throws out of the handler
      threw == ~(simChanged \/ sim = NULL) /\ ~sim.program /\ sim.numPoints # sp.numPoints
      sim1 == IF simChanged \/ sim = NULL
              THEN (IF gl THEN recreateSim(p, sp) ELSE sim)
              ELSE setParams(sim, sp.numPoints, sp.seed, SchedIters)
      sim2 == IF sim1 = NULL THEN NULL
              ELSE setView(IF mapsChanged THEN setMaps(sim1, p.maps) ELSE sim1, p.view)
      acc1 == IF gl /\ accumulate = NULL THEN NewAccumulatePass ELSE accumulate
      acc2 == IF mapsChanged \/ simChanged \/ viewChanged
              THEN resetAccumulation(acc1) ELSE acc1
  IN /\ variant = "sched"
     /\ cmd' = "updateConfig"
     /\ preset' = p /\ simParams' = sp /\ renderParams' = rp
     /\ sim' = IF threw THEN sim1 ELSE sim2
     /\ accumulate' = IF threw THEN accumulate ELSE acc2
     /\ frameIndex' = IF threw THEN frameIndex
                      ELSE IF recreate \/ mapsChanged \/ simChanged THEN 0 ELSE frameIndex
     /\ lastView' = IF threw THEN lastView ELSE p.view
     /\ out' = <<>> /\ ops' = <<>>
     /\ UNCHANGED <<timerVars, variant, env, gl, loopHandle, timers, now, lastFrameStart, postprocess,
                    pointProgram, simGlobal, simLocal, respawnBoostFrames,
                    respawnSeedsCache, respawnInViewFraction, disposed, accTrace>>

\* resize(width, height, dpr): the accumulation targets are recreated; on a disposed
\* pass (context lost) createTargets throws after disposeTextures
WorkerResize ==
  /\ cmd' = "resize"
  /\ accumulate' = IF accumulate = NULL THEN NULL
                   ELSE IF accumulate.decayProgram THEN AccResize(accumulate)
                   ELSE disposeTextures(accumulate)
  /\ out' = <<>> /\ ops' = <<>>
  /\ UNCHANGED <<timerVars, uiVars, variant, env, gl, preset, simParams, renderParams, loopHandle, timers, now,
                 lastFrameStart, postprocess, pointProgram, sim, simGlobal, simLocal,
                 frameIndex, respawnBoostFrames, respawnSeedsCache,
                 respawnInViewFraction, lastView, disposed, accTrace>>

\* stopLoop
stopLoop(ts) == IF loopHandle # NoHandle THEN ClearTimeout(ts, loopHandle) ELSE ts

DisposeSim(s) == IF s = NULL THEN NULL ELSE SimDispose(s)

\* dispose()
SchedDispose ==
  /\ variant = "sched"
  /\ cmd' = "dispose"
  /\ timers' = stopLoop(timers)
  /\ loopHandle' = NoHandle
  /\ postprocess' = IF postprocess = NoPost THEN NoPost ELSE "disposed"
  /\ sim' = DisposeSim(sim)
  /\ accumulate' = IF accumulate = NULL THEN NULL ELSE AccDispose(accumulate)
  /\ gl' = FALSE
  /\ disposed' = TRUE
  /\ out' = <<>> /\ ops' = <<>>
  /\ glQueries' = IF gl /\ timerExt THEN DeleteQueries(glQueries, pendingTimerQueries)
                  ELSE glQueries
  /\ gpuTimerLabel' = <<>>
  /\ pendingTimerQueries' = <<>>
  /\ UNCHANGED <<timerExt, uiVars, variant, env, preset, simParams, renderParams, now,
                 lastFrameStart,
                 pointProgram, simGlobal, simLocal, frameIndex, respawnBoostFrames,
                 respawnSeedsCache, respawnInViewFraction, lastView, accTrace>>

\* the warmup loop of handleFitRequest
RECURSIVE WarmupLoop(_, _)
WarmupLoop(st, k) ==
  IF k = 0 THEN {st}
  ELSE UNION {WarmupLoop([sim |-> step(st.sim, b), frame |-> st.frame + 1,
                          ops |-> st.ops \o (IF SimLive(st.sim) THEN <<"step">> ELSE <<>>)],
                         k - 1)
              : b \in StepOutcomes(st.sim)}

\* handleFitRequest(warmup) with fitView(bounds)
SchedFitView(warmup) ==
  /\ variant = "sched"
  /\ cmd' = "fitView"
  /\ frameIndex + warmup <= MaxFrame
  /\ UNCHANGED <<timerVars, variant, env, gl, simParams, renderParams, loopHandle, timers, now,
                 lastFrameStart, postprocess, pointProgram, simGlobal, simLocal,
                 respawnBoostFrames, respawnSeedsCache, respawnInViewFraction,
                 disposed, accTrace>>
  /\ IF sim = NULL \/ preset = NULL
     THEN /\ out' = <<>> /\ ops' = <<>>
          /\ UNCHANGED <<preset, sim, accumulate, frameIndex, lastView>>
     ELSE \E r \in WarmupLoop([sim |-> sim, frame |-> frameIndex, ops |-> <<>>], warmup) :
            LET fitted == FitOf(sampleBounds(r.sim))
                changed == ViewChanged(preset.view, fitted)
            IN /\ sim' = setView(r.sim, fitted)
               /\ frameIndex' = r.frame
               /\ ops' = r.ops
               /\ preset' = [preset EXCEPT !.view = fitted]
               /\ lastView' = fitted
               /\ accumulate' = IF changed THEN resetAccumulation(accumulate)
                                ELSE accumulate
               /\ out' = IF changed THEN <<"fitResult">> ELSE <<>>

\* 'resetAccum': resetFrameIndex(), resetAccumulation()
SchedResetAccum ==
  /\ variant = "sched"
  /\ cmd' = "resetAccum"
  /\ frameIndex' = 0
  /\ accumulate' = resetAccumulation(accumulate)
  /\ out' = <<>> /\ ops' = <<>>
  /\ UNCHANGED <<timerVars, uiVars, variant, env, gl, preset, simParams, renderParams, loopHandle, timers, now,
                 lastFrameStart, postprocess, pointProgram, sim, simGlobal, simLocal,
                 respawnBoostFrames, respawnSeedsCache, respawnInViewFraction,
                 lastView, disposed, accTrace>>

InitSched ==
  /\ WorkerFields("sched")
  /\ accumulate = NULL
  /\ accTrace = NoTrace

NextSched ==
  \/ \E p \in Presets, sp \in SimParamsSet, rp \in RenderParamsSet :
       SchedInit(p, sp, rp) /\ UNCHANGED uiVars
  \/ \E p \in Presets, sp \in SimParamsSet, rp \in RenderParamsSet :
       SchedUpdateConfig(p, sp, rp) /\ UNCHANGED uiVars
  \/ variant = "sched" /\ WorkerResize
  \/ SchedDispose
  \/ \E w \in Warmups : SchedFitView(w) /\ UNCHANGED uiVars
  \/ SchedResetAccum
  \/ SchedTick
  \/ Advance

Spec == InitSched /\ [][NextSched]_vars

----------------------------------------------------------------------------
(* Dual-population worker (first RenderWorker class: simGlobal, simLocal, render, *)
(* and the respawn controller)                                                     *)

localFrac == <<17, 20>>                  \* 0.85
baseRespawnProbMin == <<1, 200>>         \* 0.005
baseRespawnProbMax == <<3, 5>>           \* 0.6
respawnGain == <<6, 5>>                  \* 1.2
boostRespawnProb == <<4, 5>>             \* 0.8
targetFill == <<199, 200>>               \* 0.995
boostDurationFrames == 30
respawnMaxSeeds == 1024
respawnUpdateInterval == 4
GlobalIters == 1                         \* itersPerStep of the global population
LocalIters == 8                          \* itersPerStep of the local population

\* Math.max(1, Math.floor(total * localFrac))
NumLocal(total) == Max(1, (total * localFrac[1]) \div localFrac[2])
NumGlobal(total) == Max(1, total - NumLocal(total))

\* inView(x, y, viewBounds(view))
InView(p, view) == ~OutOfClip(p, view.scale, view.offset)

\* the first respawnMaxSeeds elements of a sequence
Capped(seq) == SubSeq(seq, 1, Min(Len(seq), respawnMaxSeeds))

\* respawnGain * max(0, targetFill - inView / total), clamped to [probMin, probMax]
ClampedProb(frac) ==
  LET num == targetFill[1] * frac[2] - frac[1] * targetFill[2]
      den == targetFill[2] * frac[2]
      deficit == IF num > 0 THEN <<num, den>> ELSE RZero
      desired == <<respawnGain[1] * deficit[1], respawnGain[2] * deficit[2]>>
  IN IF RLess(desired, baseRespawnProbMin) THEN baseRespawnProbMin
     ELSE IF RLess(baseRespawnProbMax, desired) THEN baseRespawnProbMax
     ELSE desired

MutPoolFor(seeds, cache) == seeds
\* the pool of a control cycle: this cycle's seeds, or else the cached pool
PoolFor(seeds, cache) == IF Len(seeds) > 0 THEN seeds ELSE cache

\* updateRespawnControl(prevViewOverride): the new simLocal, seed cache and fill fraction
updateRespawnControl(local, global, view, prevView, cache, boost) ==
  LET sampleLocal == Particles(local)
      sampleGlobal == Particles(global)
      visible(q) == InView(q, view)
      entering(q) == InView(q, view) /\ ~InView(q, prevView)
      seedsLocal == Capped(SelectSeq(sampleLocal, visible))
      fresh == Capped(SelectSeq(sampleGlobal, entering))
      seedsGlobal == IF Len(fresh) = 0 THEN Capped(SelectSeq(sampleGlobal, visible))
                     ELSE fresh
      seeds == IF Len(seedsLocal) > 0 THEN seedsLocal ELSE seedsGlobal
      cache2 == PoolFor(seeds, cache)
      local1 == IF Len(cache2) > 0 THEN setRespawnSeeds(local, cache2) ELSE local
      total == Len(sampleLocal)
      frac == IF total > 0 THEN <<Len(SelectSeq(sampleLocal, visible)), total>> ELSE NoRatio
      clamped == ClampedProb(frac)
      prob == IF Len(cache2) = 0 THEN RZero
              ELSE IF boost > 0 THEN RMax(clamped, boostRespawnProb) ELSE clamped
  IN [simLocal |-> setRespawnProb(local1, prob), cache |-> cache2, frac |-> frac]

\* recreateSims: both populations over max(2, numPoints) points, the local one starting
\* at respawn probability baseRespawnProbMax
NewGlobal(p, sp) ==
  setView(setMaps(NewSim(NumGlobal(Max(2, sp.numPoints)), sp.seed, "global", GlobalIters),
                  p.maps), p.view)
NewLocal(p, sp) ==
  setRespawnProb(
    setView(setMaps(NewSim(NumLocal(Max(2, sp.numPoints)), sp.seed, "local", LocalIters),
                    p.maps), p.view),
    baseRespawnProbMax)

startRespawnBoost == boostDurationFrames

\* simGlobal.step(frameIndex); simLocal.step(frameIndex): the pairs of outcomes
StepBoth(g, l) ==
  {[simGlobal |-> step(g, bg), simLocal |-> step(l, bl)] :
     bg \in StepOutcomes(g), bl \in StepOutcomes(l)}

\* render: the respawn cadence ahead of the kernel steps
RenderControl ==
  IF frameIndex % respawnUpdateInterval = 0
  THEN updateRespawnControl(simLocal, simGlobal, preset.view, lastView,
                            respawnSeedsCache, respawnBoostFrames)
  ELSE [simLocal |-> IF respawnBoostFrames > 0
                     THEN setRespawnProb(simLocal, boostRespawnProb) ELSE simLocal,
        cache |-> respawnSeedsCache, frac |-> respawnInViewFraction]

\* render, for a worker whose resources are all non-null: every outcome of the tick
RenderResults ==
  LET ctl == RenderControl
      a1 == beginFrame(accumulate, renderParams.decay)
      drawn == frameIndex + 1 >= simParams.burnIn
  IN {[simGlobal |-> r.simGlobal, simLocal |-> r.simLocal, cache |-> ctl.cache,
       frac |-> ctl.frac,
       acc |-> endFrame(IF drawn
                        THEN drawPoints(
                               drawPoints(a1, Cardinality(Splatted(Particles(r.simGlobal),
                                                                   preset.view, simParams.burnIn))),
                               Cardinality(Splatted(Particles(r.simLocal), preset.view,
                                                    simParams.burnIn)))
                        ELSE a1),
       ops |-> <<"step", "step", "decay">>
                 \o (IF drawn THEN <<"splat", "splat">> ELSE <<>>)
                 \o <<"swap", "tonemap">>]
        : r \in StepBoth(simGlobal, ctl.simLocal)}

RenderReady ==
  /\ gl /\ postprocess # NoPost /\ simGlobal # NULL /\ simLocal # NULL
  /\ pointProgram /\ accumulate # NULL

\* the tick callback of startLoop (requestFrame: no throttle)
DualTick ==
  /\ variant = "dual"
  /\ \E t \in timers :
       /\ t.due <= now
       /\ cmd' = "tick"
       /\ UNCHANGED <<timerVars, uiVars, variant, env, gl, preset, simParams, renderParams, now,
                      lastFrameStart, postprocess, pointProgram, sim, lastView,
                      disposed, accTrace>>
       /\ IF ~gl
          THEN /\ loopHandle' = NoHandle
               /\ timers' = timers \ {t}
               /\ out' = <<>> /\ ops' = <<>>
               /\ UNCHANGED <<simGlobal, simLocal, accumulate, frameIndex,
                              respawnBoostFrames, respawnSeedsCache, respawnInViewFraction>>
          ELSE /\ loopHandle' = t.id
               /\ timers' = SetTimeout(timers \ {t}, t.id, 0)
               /\ IF RenderReady
                  THEN /\ frameIndex' = frameIndex + 1
                       /\ respawnBoostFrames' = Max(respawnBoostFrames - 1, 0)
                       /\ \E r \in RenderResults, diag \in BOOLEAN :
                            /\ simGlobal' = r.simGlobal
                            /\ simLocal' = r.simLocal
                            /\ respawnSeedsCache' = r.cache
                            /\ respawnInViewFraction' = r.frac
                            /\ accumulate' = r.acc
                            /\ ops' = r.ops
                            /\ out' = IF diag THEN <<"diag">> ELSE <<>>
                  ELSE /\ out' = <<>> /\ ops' = <<>>
                       /\ UNCHANGED <<simGlobal, simLocal, accumulate, frameIndex,
                                      respawnBoostFrames, respawnSeedsCache,
                                      respawnInViewFraction>>

\* init(msg)
DualInit(p, sp, rp) ==
  /\ variant = "dual"
  /\ cmd' = "init"
  /\ preset' = p /\ simParams' = sp /\ renderParams' = rp
  /\ lastView' = p.view
  /\ ops' = <<>>
  /\ UNCHANGED <<timerVars, uiVars, variant, env, now, lastFrameStart, sim, frameIndex,
                 respawnInViewFraction, accTrace>>
  /\ IF env = "context"
     THEN /\ out' = <<"error">>
          /\ UNCHANGED <<gl, loopHandle, timers, postprocess, pointProgram, simGlobal,
                         simLocal, accumulate, respawnBoostFrames, respawnSeedsCache,
                         disposed>>
     ELSE /\ gl' = TRUE
          /\ disposed' = FALSE
          /\ postprocess' = "live"
          /\ accumulate' = NewAccumulatePass
          /\ simGlobal' = NewGlobal(p, sp)
          /\ simLocal' = NewLocal(p, sp)
          /\ respawnSeedsCache' = <<>>
          /\ respawnBoostFrames' = startRespawnBoost
          /\ pointProgram' = TRUE     \* assigned by gl.createProgram() ahead of the compile
          /\ IF env = "pointProgram"
             THEN /\ out' = <<"error">>
                  /\ UNCHANGED <<loopHandle, timers>>
             ELSE /\ out' = <<"ready">>
                  /\ timers' = startLoop(timers, loopHandle).timers
                  /\ loopHandle' = startLoop(timers, loopHandle).handle

\* updateConfig(preset, sim, render)
DualUpdateConfig(p, sp, rp) ==
  LET prevView == IF preset = NULL THEN lastView ELSE preset.view
      viewChanged == preset = NULL \/ preset.view # p.view
      mapsChanged == preset = NULL \/ preset.maps # p.maps
      simChanged == \/ simParams = NULL
                    \/ simParams.numPoints # sp.numPoints
                    \/ simParams.seed # sp.seed
                    \/ simParams.burnIn # sp.burnIn
      noSims == simGlobal = NULL \/ simLocal = NULL
      mismatch == /\ ~noSims
                  /\ \/ simGlobal.numPoints # NumGlobal(sp.numPoints)
                     \/ simLocal.numPoints # NumLocal(sp.numPoints)
      recreate == (simChanged \/ noSims \/ mismatch) /\ gl
      g1 == IF recreate THEN NewGlobal(p, sp)
            ELSE IF simChanged \/ noSims \/ mismatch THEN simGlobal
            ELSE setParams(simGlobal, NumGlobal(sp.numPoints), sp.seed, GlobalIters)
      l1 == IF recreate THEN NewLocal(p, sp)
            ELSE IF simChanged \/ noSims \/ mismatch THEN simLocal
            ELSE setParams(simLocal, NumLocal(sp.numPoints), sp.seed, LocalIters)
      cache1 == IF recreate THEN <<>> ELSE respawnSeedsCache
      boost1 == IF recreate THEN startRespawnBoost ELSE respawnBoostFrames
      both == g1 # NULL /\ l1 # NULL
      g2 == IF both THEN setView(IF mapsChanged THEN setMaps(g1, p.maps) ELSE g1, p.view)
            ELSE g1
      l2 == IF both THEN setView(IF mapsChanged THEN setMaps(l1, p.maps) ELSE l1, p.view)
            ELSE l1
      ctl == IF both /\ viewChanged
             THEN updateRespawnControl(l2, g2, p.view, prevView, cache1, boost1)
             ELSE [simLocal |-> l2, cache |-> cache1, frac |-> respawnInViewFraction]
      invalid == mapsChanged \/ simChanged \/ viewChanged
  IN /\ variant = "dual"
     /\ cmd' = "updateConfig"
     /\ preset' = p /\ simParams' = sp /\ renderParams' = rp
     /\ simGlobal' = g2
     /\ simLocal' = ctl.simLocal
     /\ respawnSeedsCache' = ctl.cache
     /\ respawnInViewFraction' = ctl.frac
     /\ respawnBoostFrames' = IF viewChanged THEN startRespawnBoost ELSE boost1
     /\ frameIndex' = IF invalid THEN 0 ELSE frameIndex
     /\ accumulate' = IF invalid THEN resetAccumulation(accumulate) ELSE accumulate
     /\ lastView' = p.view
     /\ out' = <<>> /\ ops' = <<>>
     /\ UNCHANGED <<timerVars, uiVars, variant, env, gl, loopHandle, timers, now, lastFrameStart,
                    postprocess, pointProgram, sim, disposed, accTrace>>

\* dispose()
DualDispose ==
  /\ variant = "dual"
  /\ cmd' = "dispose"
  /\ timers' = stopLoop(timers)
  /\ loopHandle' = NoHandle
  /\ postprocess' = IF postprocess = NoPost THEN NoPost ELSE "disposed"
  /\ simGlobal' = DisposeSim(simGlobal)
  /\ simLocal' = DisposeSim(simLocal)
  /\ accumulate' = IF accumulate = NULL THEN NULL ELSE AccDispose(accumulate)
  /\ gl' = FALSE
  /\ disposed' = TRUE
  /\ out' = <<>> /\ ops' = <<>>
  /\ UNCHANGED <<timerVars, uiVars, variant, env, preset, simParams, renderParams, now, lastFrameStart,
                 pointProgram, sim, frameIndex, respawnBoostFrames, respawnSeedsCache,
                 respawnInViewFraction, lastView, accTrace>>

\* the warmup loop of handleFitRequest
RECURSIVE DualWarmupLoop(_, _)
DualWarmupLoop(st, k) ==
  IF k = 0 THEN {st}
  ELSE UNION {DualWarmupLoop([simGlobal |-> r.simGlobal, simLocal |-> r.simLocal,
                              frame |-> st.frame + 1,
                              ops |-> st.ops \o (IF SimLive(st.simGlobal)
                                                 THEN <<"step", "step">> ELSE <<>>)],
                             k - 1)
              : r \in StepBoth(st.simGlobal, st.simLocal)}

\* handleFitRequest(warmup) with fitView(bounds)
DualFitView(warmup) ==
  /\ variant = "dual"
  /\ cmd' = "fitView"
  /\ UNCHANGED <<timerVars, uiVars, variant, env, gl, simParams, renderParams, loopHandle, timers, now,
                 lastFrameStart, postprocess, pointProgram, sim, respawnSeedsCache,
                 respawnInViewFraction, disposed, accTrace>>
  /\ IF simGlobal = NULL \/ simLocal = NULL \/ preset = NULL
     THEN /\ out' = <<>> /\ ops' = <<>>
          /\ UNCHANGED <<preset, simGlobal, simLocal, accumulate, frameIndex, lastView,
                         respawnBoostFrames>>
     ELSE \E r \in DualWarmupLoop([simGlobal |-> simGlobal, simLocal |-> simLocal,
                                   frame |-> frameIndex, ops |-> <<>>], warmup) :
            LET fitted == FitOf(sampleBounds(r.simGlobal))
                changed == ViewChanged(preset.view, fitted)
            IN /\ simGlobal' = setView(r.simGlobal, fitted)
               /\ simLocal' = setView(r.simLocal, fitted)
               /\ ops' = r.ops
               /\ preset' = [preset EXCEPT !.view = fitted]
               /\ lastView' = fitted
               /\ frameIndex' = IF changed THEN 0 ELSE r.frame
               /\ accumulate' = IF changed THEN resetAccumulation(accumulate)
                                ELSE accumulate
               /\ respawnBoostFrames' = IF changed THEN startRespawnBoost
                                        ELSE respawnBoostFrames
               /\ out' = IF changed THEN <<"fitResult">> ELSE <<>>

\* 'resetAccum': resetAccumulation()
DualResetAccum ==
  /\ variant = "dual"
  /\ cmd' = "resetAccum"
  /\ frameIndex' = 0
  /\ accumulate' = resetAccumulation(accumulate)
  /\ out' = <<>> /\ ops' = <<>>
  /\ UNCHANGED <<timerVars, uiVars, variant, env, gl, preset, simParams, renderParams, loopHandle, timers,
                 now, lastFrameStart, postprocess, pointProgram, sim, simGlobal,
                 simLocal, respawnBoostFrames, respawnSeedsCache,
                 respawnInViewFraction, lastView, disposed, accTrace>>

InitDual ==
  /\ WorkerFields("dual")
  /\ accumulate = NULL
  /\ accTrace = NoTrace

\* The session the UI drives (Canvas.tsx): init is the first message and is sent once,
\* and the worker is terminated right after dispose.
Serving == cmd # "none" /\ ~disposed

\* The dual-population worker under every message of the model.  Each boost window is
\* followed for MaxFrame ticks.
NextDual ==
  \/ cmd = "none" /\ \E p \in Presets, sp \in DualSimParamsSet, rp \in RenderParamsSet :
                       DualInit(p, sp, rp)
  \/ Serving /\ \E p \in Presets, sp \in DualSimParamsSet, rp \in RenderParamsSet :
                  DualUpdateConfig(p, sp, rp)
  \/ Serving /\ variant = "dual" /\ WorkerResize
  \/ Serving /\ DualDispose
  \/ Serving /\ DualFitView(0)
  \/ Serving /\ DualResetAccum
  \/ /\ frameIndex < MaxFrame
     /\ respawnBoostFrames + MaxFrame > boostDurationFrames
     /\ DualTick

\* SpecWorkers: either worker class
InitWorkers == InitSched \/ InitDual

NextWorkers == NextSched \/ NextDual

SpecWorkers == InitWorkers /\ [][NextWorkers]_vars

\* SpecBoost: the dual-population worker over a whole boost window and past its end,
\* under one map set and one point count, the view being the only setting that changes
BoostPresets == {Preset("mapsA", v) : v \in InputViews}
BoostSimParamsSet == {SimParams(2, 1)}

NextBoost ==
  \/ cmd = "none" /\ \E p \in BoostPresets, sp \in BoostSimParamsSet, rp \in RenderParamsSet :
                       DualInit(p, sp, rp)
  \/ Serving /\ \E p \in BoostPresets, sp \in BoostSimParamsSet, rp \in RenderParamsSet :
                  DualUpdateConfig(p, sp, rp)
  \/ Serving /\ variant = "dual" /\ WorkerResize
  \/ Serving /\ DualDispose
  \/ Serving /\ DualFitView(0)
  \/ frameIndex < MaxBoostFrame /\ DualTick

SpecBoost == InitDual /\ [][NextBoost]_vars

\* SpecSeeds: the dual-population worker around the creation of its particle stores,
\* with a preset view that shows the seeded scatter and one that does not
OffView == View(ViewDen, -(2 * ViewDen), 0)    \* scale 1, offset (-2, 0)
SeedPresets == {Preset("mapsA", v) : v \in {DefaultView, OffView}}

NextSeeds ==
  \/ cmd = "none" /\ \E p \in SeedPresets, sp \in BoostSimParamsSet, rp \in RenderParamsSet :
                       DualInit(p, sp, rp)
  \/ Serving /\ \E p \in SeedPresets, sp \in BoostSimParamsSet, rp \in RenderParamsSet :
                  DualUpdateConfig(p, sp, rp)
  \/ Serving /\ variant = "dual" /\ WorkerResize
  \/ Serving /\ DualDispose
  \/ Serving /\ \E w \in Warmups : frameIndex + w <= MaxFrame /\ DualFitView(w)
  \/ Serving /\ DualResetAccum
  \/ /\ frameIndex < MaxFrame
     /\ respawnBoostFrames + MaxFrame > boostDurationFrames
     /\ DualTick

SpecSeeds == InitDual /\ [][NextSeeds]_vars

----------------------------------------------------------------------------
(* SpecAccum: an AccumulatePass driven by any sequence of calls *)

InitAccum ==
  /\ WorkerFields("accum")
  /\ env = "none"
  /\ accumulate = NewAccumulatePass
  /\ accTrace = NoTrace

CallBeginFrame(decay) ==
  /\ accumulate' = beginFrame(accumulate, decay)
  /\ accTrace' = IF accumulate.textures /\ accumulate.decayProgram
                 THEN [op |-> "beginFrame", wrote |-> WriteIndex(accumulate),
                       sampled |-> accumulate.readIndex, returned |-> NoTex,
                       frameWrote |-> WriteIndex(accumulate), ended |-> FALSE]
                 ELSE [accTrace EXCEPT !.op = "beginFrame", !.wrote = NoTex,
                                       !.sampled = NoTex, !.returned = NoTex]
  /\ UNCHANGED workerVars

CallDrawPoints(n) ==
  /\ accumulate' = drawPoints(accumulate, n)
  /\ accTrace' = IF accumulate.textures
                 THEN [op |-> "drawPoints", wrote |-> WriteIndex(accumulate),
                       sampled |-> NoTex, returned |-> NoTex,
                       frameWrote |-> WriteIndex(accumulate), ended |-> FALSE]
                 ELSE [accTrace EXCEPT !.op = "drawPoints", !.wrote = NoTex,
                                       !.sampled = NoTex, !.returned = NoTex]
  /\ UNCHANGED workerVars

CallEndFrame ==
  /\ accumulate' = endFrame(accumulate)
  /\ accTrace' = [op |-> "endFrame", wrote |-> NoTex, sampled |-> NoTex,
                  returned |-> NoTex,
                  frameWrote |-> IF accTrace.ended THEN NoTex ELSE accTrace.frameWrote,
                  ended |-> TRUE]
  /\ UNCHANGED workerVars

\* getTexture throws when the textures are gone
CallGetTexture ==
  /\ accumulate.textures
  /\ accTrace' = [accTrace EXCEPT !.op = "getTexture", !.wrote = NoTex,
                                  !.sampled = NoTex, !.returned = accumulate.readIndex]
  /\ UNCHANGED <<accumulate, workerVars>>

CallClear ==
  /\ accumulate' = clear(accumulate)
  /\ accTrace' = [NoTrace EXCEPT !.op = "clear"]
  /\ UNCHANGED workerVars

CallResize ==
  /\ accumulate' = AccResize(accumulate)
  /\ accTrace' = [NoTrace EXCEPT !.op = "resize"]
  /\ UNCHANGED workerVars

NextAccum ==
  \/ \E decay \in Decays : CallBeginFrame(decay)
  \/ \E n \in 1..2 : CallDrawPoints(n)
  \/ CallEndFrame
  \/ CallGetTexture
  \/ CallClear
  \/ CallResize

SpecAccum == InitAccum /\ [][NextAccum]_vars

\* C1: the texture beginFrame/drawPoints write is never the one beginFrame samples
\* nor the one getTexture would return at that moment, and after the endFrame that
\* closes a frame the texture at the read index is the one that frame wrote.
C1_PingPong ==
  /\ accTrace.op = "beginFrame" /\ accTrace.wrote # NoTex
       => accTrace.wrote # accTrace.sampled /\ accTrace.wrote # accumulate.readIndex
  /\ accTrace.op = "drawPoints" /\ accTrace.wrote # NoTex
       => accTrace.wrote # accumulate.readIndex
  /\ accTrace.op = "endFrame" /\ accTrace.frameWrote # NoTex
       => accumulate.readIndex = accTrace.frameWrote
  /\ accTrace.op = "getTexture" /\ accTrace.ended /\ accTrace.frameWrote # NoTex
       => accTrace.returned = accTrace.frameWrote

\* a frame decayed into and splatted onto a texture, endFrame ran, and the tone
\* mapper's getTexture returned that texture with the frame's density in it
C1_Witness ==
  /\ accTrace.op = "getTexture" /\ accTrace.ended
  /\ accTrace.frameWrote = 0 /\ accTrace.returned = 0
  /\ accumulate.tex[0] = 2 /\ accumulate.tex[1] = 1

----------------------------------------------------------------------------
(* The scheduler worker: claims checked under Spec *)

Count(seq, x) == Cardinality({i \in 1..Len(seq) : seq[i] = x})
Before(seq, x, y) == \A i, j \in 1..Len(seq) : seq[i] = x /\ seq[j] = y => i < j

\* C2: a tick of the scheduler worker that fires runs exactly max(1, simStepsPerTick)
\* kernel steps and exactly one tone-mapper pass; on the accumulation buffer the decay
\* comes first, every splat lies between the decay and the swap, the swap precedes the
\* tone mapper, and the tone mapper follows every kernel step of the tick.
C2_TickOrder ==
  cmd = "tick" /\ ops # <<>> =>
    /\ Count(ops, "step") = (IF simParams.simStepsPerTick > 1
                             THEN simParams.simStepsPerTick ELSE 1)
    /\ Count(ops, "tonemap") = 1 /\ ops[Len(ops)] = "tonemap"
    /\ Count(ops, "decay") = 1 /\ ops[1] = "decay"
    /\ Count(ops, "swap") = 1
    /\ Before(ops, "decay", "splat")
    /\ Before(ops, "splat", "swap")
    /\ Before(ops, "swap", "tonemap")
    /\ Before(ops, "step", "tonemap")

\* a tick of two kernel steps, the second of them past the burn-in and splatted
C2_Witness ==
  /\ cmd = "tick" /\ simParams.simStepsPerTick = 2
  /\ Count(ops, "step") = 2 /\ Count(ops, "splat") = 1

\* C3: a tick fires only when it is the first or at least 1000 / maxFps ms have passed
\* since the start of the previous fired tick, and the first tick fires at once; a tick
\* that comes too early does no pipeline work and reschedules itself for the remaining
\* time; at any time at most one tick callback is pending.
C3_Throttle ==
  /\ [](Cardinality(timers) <= 1)
  /\ [][SchedTick =>
          LET fps == IF simParams.maxPostFps > 1 THEN simParams.maxPostFps ELSE 1
              minInterval == 1000 \div fps
              elapsed == now - lastFrameStart
              first == lastFrameStart <= 0
              fired == ops' # <<>>
          IN /\ fired => (first \/ elapsed >= minInterval) /\ lastFrameStart' = now
             /\ first => fired
             /\ ~first /\ elapsed < minInterval =>
                  /\ ~fired
                  /\ UNCHANGED <<sim, accumulate, frameIndex, lastFrameStart>>
                  /\ \E t \in timers' : t.due = now + (minInterval - elapsed)]_vars

\* a tick came 1 ms after the start of the last fired one: it did nothing and is
\* pending again, due in the remaining time
C3_Witness ==
  /\ cmd = "tick" /\ ops = <<>> /\ gl
  /\ now - lastFrameStart = 1
  /\ \E t \in timers : t.due > now

\* C4: once dispose has run the loop is stopped, no tick executes, the particle,
\* accumulation and tone-mapper resources are released, and no later updateConfig,
\* fitView, resetAccum or resize runs a kernel step or emits an event.
C4_DisposedSilent ==
  disposed =>
    /\ timers = {} /\ loopHandle = NoHandle /\ cmd # "tick"
    /\ sim # NULL => ~sim.program /\ ~sim.buffers
    /\ accumulate # NULL => ~accumulate.textures /\ ~accumulate.decayProgram
    /\ postprocess # "live"
    /\ cmd \in {"updateConfig", "fitView", "resetAccum", "resize"} =>
         out = <<>> /\ Count(ops, "step") = 0

\* C7: after a map-set change, a point-count change or a view change delivered by
\* updateConfig, after a resetAccum, and after a fitView that changes the view, both
\* accumulation textures hold zero density when the handler returns.
C7_Cleared ==
  [][(\/ cmd' = "resetAccum"
      \/ /\ cmd' = "updateConfig" /\ preset # NULL /\ simParams # NULL
         /\ \/ preset'.maps # preset.maps
            \/ preset'.view # preset.view
            \/ simParams'.numPoints # simParams.numPoints
      \/ cmd' = "fitView" /\ preset # NULL /\ preset'.view # preset.view)
     => (accumulate' # NULL => accumulate'.tex[0] = 0 /\ accumulate'.tex[1] = 0)]_vars

\* a fitView changed the view of a running worker that had splatted, and left both
\* textures empty
C7_Witness ==
  /\ variant = "sched" /\ cmd = "fitView" /\ out = <<"fitResult">> /\ gl
  /\ frameIndex >= 2 /\ accumulate.readIndex = 1
  /\ accumulate.tex[0] = 0 /\ accumulate.tex[1] = 0

----------------------------------------------------------------------------
(* Both workers: claims checked under SpecWorkers *)

\* C5: an init emits exactly one event, ready or error; after an error the loop is not
\* started and no tick runs in the session; a ready is posted by the handler that
\* schedules the first tick, which is then pending, and no tick is pending before init.
C5_InitEvent ==
  /\ cmd = "init" => out = <<"ready">> \/ out = <<"error">>
  /\ cmd = "init" /\ out = <<"error">> => timers = {} /\ loopHandle = NoHandle
  /\ env # "none" => timers = {} /\ cmd # "tick"
  /\ cmd = "init" /\ out = <<"ready">> =>
       /\ timers # {}
       /\ \A t \in timers : t.id = loopHandle
  /\ cmd = "none" => timers = {}

\* the point program failed to build: the context and the passes exist, an error
\* was posted and no tick is pending
C5_Witness ==
  /\ cmd = "init" /\ out = <<"error">> /\ env = "pointProgram"
  /\ gl /\ accumulate # NULL /\ timers = {}

\* an updateConfig handled by a worker that holds a context
UpdateStep == cmd' = "updateConfig" /\ gl /\ preset # NULL /\ simParams # NULL
MapsChange == preset'.maps # preset.maps
CountChange == simParams'.numPoints # simParams.numPoints

\* the buffers of a particle store as initBuffers leaves them
Fresh(s) ==
  /\ s # NULL
  /\ s.buffers /\ s.readIndex = 0
  /\ s.buf[0] = Scatter(s.numPoints) /\ s.buf[1] = Scatter(s.numPoints)

Kept(s, t) == t # NULL /\ t.buf = s.buf /\ t.readIndex = s.readIndex

\* C6, as stated: an updateConfig that changes the point count or the map set
\* recreates the particle buffers (fresh scatter, read index 0) and clears the history.
C6_RecreateOnMapsOrCount ==
  [][UpdateStep /\ (MapsChange \/ CountChange) =>
       /\ IF variant = "sched" THEN Fresh(sim') ELSE Fresh(simGlobal') /\ Fresh(simLocal')
       /\ accumulate'.tex[0] = 0 /\ accumulate'.tex[1] = 0]_vars

\* C6, amended: an updateConfig that changes the point count recreates the particle
\* buffers (fresh scatter, read index 0); one that changes only the map set uploads
\* the new maps and keeps the buffers and their read index; both clear the history
\* and restart the frame count.
C6_RecreateOnCount ==
  [][UpdateStep /\ (MapsChange \/ CountChange) =>
       /\ accumulate'.tex[0] = 0 /\ accumulate'.tex[1] = 0
       /\ frameIndex' = 0
       /\ IF CountChange
          THEN IF variant = "sched" THEN Fresh(sim')
               ELSE Fresh(simGlobal') /\ Fresh(simLocal')
          ELSE IF variant = "sched"
               THEN Kept(sim, sim') /\ sim'.maps = preset'.maps
               ELSE /\ Kept(simGlobal, simGlobal') /\ simGlobal'.maps = preset'.maps
                    /\ Kept(simLocal, simLocal') /\ simLocal'.maps = preset'.maps]_vars

\* the map set went from mapsA to mapsB after a step: the first particle still sits
\* where mapsA put it (mapsB sends it to the origin), the read index is still 1
C6_Witness ==
  /\ variant = "sched" /\ cmd = "updateConfig" /\ gl /\ sim # NULL
  /\ sim.maps = "mapsB" /\ sim.readIndex = 1 /\ sim.buf[1][1].x = 2
  /\ frameIndex = 0 /\ accumulate.tex[0] = 0 /\ accumulate.tex[1] = 0

\* C8: resetAccum zeroes both accumulation textures and leaves the particle stores
\* (positions, ages, read index, respawn probability and seeds), the respawn state of
\* the worker and the view unchanged.
C8_ResetAccum ==
  [][cmd' = "resetAccum" =>
       /\ accumulate' # NULL => accumulate'.tex[0] = 0 /\ accumulate'.tex[1] = 0
       /\ UNCHANGED <<sim, simGlobal, simLocal, preset, lastView, respawnBoostFrames,
                      respawnSeedsCache, respawnInViewFraction>>]_vars

\* a resetAccum on a dual-population worker that has stepped and holds a seed pool
C8_Witness ==
  /\ variant = "dual" /\ cmd = "resetAccum" /\ gl
  /\ simLocal.readIndex = 1 /\ respawnSeedsCache # <<>>
  /\ frameIndex = 0 /\ accumulate.tex[0] = 0 /\ accumulate.tex[1] = 0

----------------------------------------------------------------------------
(* The respawn boost: claims checked under SpecBoost *)

InRange(p) == ~RLess(p, baseRespawnProbMin) /\ ~RLess(baseRespawnProbMax, p)

\* C9: whenever the seed pool is populated and respawnBoostFrames = 0, the respawn
\* probability the local kernel's next step consumes lies in [probMin, probMax] and
\* is the clamped gain * max(0, targetFill - fillFraction) of the last sample.
C9_ProbClamped ==
  RenderReady /\ respawnSeedsCache # <<>> /\ respawnBoostFrames = 0 =>
    LET ctl == RenderControl
    IN /\ InRange(ctl.simLocal.respawnProb)
       /\ REq(ctl.simLocal.respawnProb, ClampedProb(ctl.frac))

\* C10: a view change sets the boost window to boostDurationFrames ticks; a tick inside
\* the window steps the local kernel with max(clampedProb, boostProb) >= boostProb, and
\* a tick after the window steps it with the clamped probability.
C10_BoostWindow ==
  /\ [][cmd' \in {"updateConfig", "fitView"} /\ RenderReady /\ preset'.view # preset.view
          => respawnBoostFrames' = boostDurationFrames]_vars
  /\ [][DualTick /\ RenderReady =>
          LET prob == simLocal'.respawnProb
              clamped == ClampedProb(respawnInViewFraction')
          IN IF respawnBoostFrames > 0
             THEN REq(prob, RMax(clamped, boostRespawnProb)) /\ ~RLess(prob, boostRespawnProb)
             ELSE REq(prob, clamped)]_vars

----------------------------------------------------------------------------
(* The seed pool: claims checked under SpecSeeds and SpecBoost *)

\* C11: while the seed cache has been empty since the particle stores were created,
\* every kernel step of the local population runs with respawn probability 0.
C11_NoBlindRespawn ==
  [][(/\ simLocal # NULL /\ SimLive(simLocal)
      /\ Count(ops', "step") > 0
      /\ respawnSeedsCache' = <<>>)
     => REq(simLocal'.respawnProb, RZero)]_vars

\* the particles of a sequence, as a set
Members(parts) == {parts[i] : i \in 1..Len(parts)}

\* C12: every seed the controller hands to the kernel is a sampled particle that lies
\* inside the current viewport and has age >= burnIn, and the pool holds at most
\* respawnMaxSeeds entries.
C12_SeedPool ==
  RenderReady /\ frameIndex % respawnUpdateInterval = 0 =>
    LET ctl == RenderControl
        sampled == Members(Particles(simLocal)) \cup Members(Particles(simGlobal))
    IN /\ Len(ctl.cache) <= respawnMaxSeeds
       /\ \A j \in 0..(ctl.simLocal.respawnSeedCount - 1) :
            \E q \in sampled : /\ SeedAt(ctl.simLocal, j) = q
                               /\ InView(q, preset.view)
                               /\ q.age >= simParams.burnIn

----------------------------------------------------------------------------
(* SpecKernel: one TransformFeedbackSim of the respawning kind, driven through its *)
(* API by any caller; respawnSeedsCache holds the array last passed to             *)
(* setRespawnSeeds.                                                                *)

KernelRest == <<timerVars, uiVars, variant, env, gl, preset, simParams, renderParams, loopHandle, timers,
                now, lastFrameStart, postprocess, pointProgram, simGlobal, simLocal,
                accumulate, frameIndex, respawnBoostFrames, respawnInViewFraction,
                lastView, out, ops, disposed, accTrace>>

InitKernel ==
  /\ WorkerFields("kernel")
  /\ env = "none"
  /\ accumulate = NULL
  /\ accTrace = NoTrace

\* the seeds a caller passes: a settled and a fresh particle of the origin cell, and a
\* fresh one of the cell to its right
SeedParticles == {Particle(0, 0, 1), Particle(0, 0, 0), Particle(2, 0, 0)}
SeedPools == {<<>>} \cup {<<a>> : a \in SeedParticles}
                    \cup {<<a, b>> : a \in SeedParticles, b \in SeedParticles}
RespawnProbs == {RZero, <<1, 2>>, ROne, <<2, 1>>}

CallNew(n, maps) ==
  /\ cmd = "none"
  /\ sim' = setMaps(NewSim(n, 42, "local", 1), maps)
  /\ cmd' = "new"
  /\ UNCHANGED <<respawnSeedsCache, KernelRest>>

CallSetView(view) ==
  /\ sim # NULL
  /\ sim' = setView(sim, view)
  /\ cmd' = "setView"
  /\ UNCHANGED <<respawnSeedsCache, KernelRest>>

CallSetRespawnProb(p) ==
  /\ sim # NULL
  /\ sim' = setRespawnProb(sim, p)
  /\ cmd' = "setRespawnProb"
  /\ UNCHANGED <<respawnSeedsCache, KernelRest>>

CallSetRespawnSeeds(seeds) ==
  /\ sim # NULL
  /\ sim' = setRespawnSeeds(sim, seeds)
  /\ respawnSeedsCache' = seeds
  /\ cmd' = "setRespawnSeeds"
  /\ UNCHANGED KernelRest

CallStep ==
  /\ sim # NULL
  /\ \E b \in StepOutcomes(sim) : sim' = step(sim, b)
  /\ cmd' = "step"
  /\ UNCHANGED <<respawnSeedsCache, KernelRest>>

NextKernel ==
  \/ \E n \in PointCounts, maps \in MapSets : CallNew(n, maps)
  \/ \E view \in InputViews : CallSetView(view)
  \/ \E p \in RespawnProbs : CallSetRespawnProb(p)
  \/ \E seeds \in SeedPools : CallSetRespawnSeeds(seeds)
  \/ CallStep

SpecKernel == InitKernel /\ [][NextKernel]_vars

\* the buffer a step just read, and the position its affine map gave particle i
StepSource(s) == s.buf[(s.readIndex + 1) % 2]
Mapped(s, i) == MapImage(s.maps, i, StepSource(s)[i])

\* C13: after a step of one sub-iteration with respawnProb = 1 and a non-empty pool
\* supplied through setRespawnSeeds, every particle whose mapped position is outside
\* the viewport is in a state (x, y, age) equal to an entry of the supplied pool.
C13_RespawnFromPool ==
  (/\ cmd = "step"
   /\ sim.itersPerStep = 1
   /\ REq(sim.respawnProb, ROne)
   /\ Len(respawnSeedsCache) > 0)
  => \A i \in 1..Len(Particles(sim)) :
       OutOfClip(Mapped(sim, i), sim.viewScale, sim.viewOffset)
       => \E j \in 1..Len(respawnSeedsCache) : Particles(sim)[i] = respawnSeedsCache[j]

----------------------------------------------------------------------------
(* SpecMaps: the map table of one TransformFeedbackSim.  setMaps builds it with     *)
(* computeNormalizedCdf and the kernel picks a map from it for a draw r.            *)
(* Probabilities are JavaScript numbers: binary floating point, round to nearest,   *)
(* ties to even.  A session runs the arithmetic either rounded to MantBits          *)
(* significant bits (the code has 53) or exactly; variant tells which.              *)

MAX_MAPS == 8
MantBits == 3          \* significant bits of a rounded number

RECURSIVE GCD(_, _)
GCD(a, b) == IF b = 0 THEN a ELSE GCD(b, a % b)
RNorm(a) == LET g == GCD(Abs(a[1]), a[2]) IN <<a[1] \div g, a[2] \div g>>
RAdd(a, b) == RNorm(<<a[1] * b[2] + b[1] * a[2], a[2] * b[2]>>)
RSub(a, b) == RNorm(<<a[1] * b[2] - b[1] * a[2], a[2] * b[2]>>)
RDiv(a, b) == RNorm(<<a[1] * b[2], a[2] * b[1]>>)
RLeq(a, b) == ~RLess(b, a)

RECURSIVE Pow2(_)
Pow2(k) == IF k = 0 THEN 1 ELSE 2 * Pow2(k - 1)
RPow2(e) == IF e >= 0 THEN <<Pow2(e), 1>> ELSE <<1, Pow2(-e)>>

\* the nearest number of MantBits significant bits, ties to the even mantissa
Rounded(q) ==
  IF q[1] = 0 THEN RZero
  ELSE LET e == CHOOSE k \in -12..6 : RLeq(RPow2(k), q) /\ RLess(q, RPow2(k + 1))
           ulp == RPow2(e - MantBits + 1)
           m == RDiv(q, ulp)
           f == m[1] \div m[2]
           rest == m[1] - f * m[2]
           up == 2 * rest > m[2] \/ (2 * rest = m[2] /\ f % 2 = 1)
       IN RDiv(<<(IF up THEN f + 1 ELSE f) * ulp[1], 1>>, <<ulp[2], 1>>)

\* max(0, p) of a map's probability
MutClampProb(p) == <<p, 1>>
ClampProb(p) == RMax(RZero, <<p, 1>>)

\* the share of each active map when no probability is positive
MutUniformShare(n) == <<1, 1>>
UniformShare(n) == <<1, n>>

\* computeNormalizedCdf on the probabilities of a map list; every arithmetic result is
\* rounded unless the session's arithmetic is exact
computeNormalizedCdf(probabilities, arithmetic) ==
  LET Rnd(q) == IF arithmetic = "exact" THEN q ELSE Rounded(q)
      n == Min(Len(probabilities), MAX_MAPS)
      sumTo[k \in 0..n] ==
        IF k = 0 THEN RZero ELSE Rnd(RAdd(sumTo[k - 1], ClampProb(probabilities[k])))
      sum == sumTo[n]
      probs == [i \in 1..n |->
                  IF RLeq(sum, RZero) THEN Rnd(UniformShare(n))
                  ELSE Rnd(RDiv(ClampProb(probabilities[i]), sum))]
      accum[k \in 0..n] ==
        IF k = 0 THEN RZero
        ELSE IF k = n THEN ROne                   \* ensure last is 1
        ELSE Rnd(RAdd(accum[k - 1], probs[k]))
  IN [cdf |-> [i \in 1..MAX_MAPS |-> IF i <= n THEN accum[i] ELSE ROne], numMaps |-> n]

\* updateMaps: this.cdf, and this.numMaps = numMaps || 1
updateMaps(probabilities, arithmetic) ==
  LET t == computeNormalizedCdf(probabilities, arithmetic)
  IN [cdf |-> t.cdf, numMaps |-> IF t.numMaps = 0 THEN 1 ELSE t.numMaps]

\* the kernel's scan: chosen starts at 0 and the first i < u_numMaps with r < u_cdf[i]
\* replaces it
RECURSIVE Scan(_, _, _, _)
Scan(cdf, numMaps, r, i) ==
  IF i >= MAX_MAPS \/ i >= numMaps THEN 0
  ELSE IF RLess(r, cdf[i + 1]) THEN i
  ELSE Scan(cdf, numMaps, r, i + 1)

Chosen(s, r) == Scan(s.cdf, s.numMaps, r, 0)

\* map lists by their probabilities: up to four maps, and one list longer than the table
MapProbabilities == {-1, 0, 1, 2, 4}
MapLists ==
  UNION {[1..n -> MapProbabilities] : n \in 0..4}
    \cup {[i \in 1..(MAX_MAPS + 1) |-> 1], <<2, 3, 5>>}
\* rand: float(hash3) / 4294967295.0 lies in [0, 1], both ends included
Draws == {<<k, 8>> : k \in 0..8}

MapsRest == <<env, gl, simParams, renderParams, loopHandle, timers, now, lastFrameStart,
              postprocess, pointProgram, simGlobal, simLocal, accumulate, frameIndex,
              respawnBoostFrames, respawnSeedsCache, respawnInViewFraction, lastView,
              out, disposed, accTrace>>

InitMaps ==
  /\ \E arithmetic \in {"exact", "rounded"} : WorkerFields(arithmetic)
  /\ env = "none"
  /\ accumulate = NULL
  /\ accTrace = NoTrace

\* setMaps overwrites the whole table, so a session sets one map list and then draws
MapsSetMaps(probabilities) ==
  /\ cmd = "none"
  /\ preset' = [maps |-> probabilities]
  /\ sim' = updateMaps(probabilities, variant)
  /\ ops' = <<>>
  /\ cmd' = "setMaps"
  /\ UNCHANGED <<timerVars, uiVars, variant, MapsRest>>

\* one sub-iteration's map selection for a draw r
MapsSelect(r) ==
  /\ sim # NULL
  /\ ops' = <<[r |-> r, chosen |-> Chosen(sim, r)]>>
  /\ cmd' = "select"
  /\ UNCHANGED <<timerVars, uiVars, variant, preset, sim, MapsRest>>

NextMaps ==
  \/ \E probabilities \in MapLists : MapsSetMaps(probabilities)
  \/ \E r \in Draws : MapsSelect(r)

SpecMaps == InitMaps /\ [][NextMaps]_vars

\* the active indices of the table a selection ran on that satisfy r < cdf[i]
Hits == {i \in 0..(sim.numMaps - 1) : RLess(ops[1].r, sim.cdf[i + 1])}

\* C14: the chosen map is the smallest active index i with r < cdf[i]; when no active
\* index satisfies it, the chosen map is the last active index numMaps - 1.
C14_Selection ==
  cmd = "select" =>
    /\ Hits # {} => ops[1].chosen \in Hits /\ \A i \in Hits : ops[1].chosen <= i
    /\ Hits = {} => ops[1].chosen = sim.numMaps - 1

\* C15: the table has MAX_MAPS entries, is non-decreasing, holds exactly 1 at the last
\* active index min(length, MAX_MAPS) - 1 and at every index from the active count on.
C15_CdfTable ==
  sim # NULL =>
    LET n == Min(Len(preset.maps), MAX_MAPS)
    IN /\ DOMAIN sim.cdf = 1..MAX_MAPS
       /\ \A i \in 1..(MAX_MAPS - 1) : RLeq(sim.cdf[i], sim.cdf[i + 1])
       /\ n > 0 => sim.cdf[n] = ROne
       /\ \A i \in (n + 1)..MAX_MAPS : sim.cdf[i] = ROne

\* the active maps of the list a session set, and the sum of their clamped probabilities
Active == 1..Min(Len(preset.maps), MAX_MAPS)
Positive(p) == IF p > 0 THEN p ELSE 0
RECURSIVE PositiveSum(_)
PositiveSum(k) == IF k = 0 THEN 0 ELSE PositiveSum(k - 1) + Positive(preset.maps[k])
\* the selection mass of active map i: cdf[i] - cdf[i-1], with cdf[-1] = 0
Mass(i) == RSub(sim.cdf[i], IF i = 1 THEN RZero ELSE sim.cdf[i - 1])

----------------------------------------------------------------------------
(* SpecGuard: the tail of one sub-iteration of the two kernels, from the affine/warp *)
(* result to the state written: the respawning kernel (guard, respawn, age) and the  *)
(* plain kernel of tfSim.vert.glsl (guard under u_useGuard, position only).          *)
(* variant tells which kernel the program was linked from.                           *)

\* a float coordinate: finite on the particle lattice, NaN, or an infinity
Fin(v) == [kind |-> "finite", v |-> v]
NaN == [kind |-> "nan", v |-> 0]
Inf(sign) == [kind |-> "inf", v |-> sign]
Coords == {Fin(0), Fin(2), NaN, Inf(1), Inf(-1)}
IsNaN(c) == c.kind = "nan"
IsFinite(c) == c.kind = "finite"
Point(x, y) == [x |-> x, y |-> y]

\* abs(c * viewScale + offset) > 1.0 for one coordinate (viewScale > 0): never true of
\* NaN, always of an infinity
ClipOut(c, scale, offset) ==
  IF IsNaN(c) THEN FALSE
  ELSE IF IsFinite(c) THEN Abs(c.v * scale + offset) > ViewDen
  ELSE TRUE

\* a uniformly random point of the viewport, in world space
ViewportPoints(s) ==
  {Point(Fin(w[1]), Fin(w[2])) : w \in
     {v \in World : ~OutOfClip(Particle(v[1], v[2], 0), s.viewScale, s.viewOffset)}}

\* respawning kernel: NaN guard (jitter near the origin, age 0), respawn of a point
\* outside the viewport, then age += 1.0; ages from cap on are told apart no further
RespawnTail(s, q, age, cap) ==
  LET guarded == IF IsNaN(q.x) \/ IsNaN(q.y)
                 THEN [p |-> Point(Fin(0), Fin(0)), age |-> 0]
                 ELSE [p |-> q, age |-> age]
      outside == ClipOut(guarded.p.x, s.viewScale, s.viewOffset.x)
               \/ ClipOut(guarded.p.y, s.viewScale, s.viewOffset.y)
      pool == {[p |-> Point(Fin(SeedAt(s, j).x), Fin(SeedAt(s, j).y)), age |-> SeedAt(s, j).age] :
                 j \in 0..(s.respawnSeedCount - 1)}
      fresh == {[p |-> v, age |-> 0] : v \in ViewportPoints(s)}
      respawn == IF s.respawnProb[1] > 0 /\ outside
                 THEN (IF s.respawnSeedCount > 0 THEN pool ELSE fresh)
                 ELSE {}
  IN {[p |-> o.p, age |-> Min(o.age + 1, cap)] : o \in {guarded} \cup respawn}

\* plain kernel: u_useGuard == 1 && any(isnan(p)) replaces p by a viewport point
PlainTail(s, useGuard, q) ==
  IF useGuard /\ (IsNaN(q.x) \/ IsNaN(q.y)) THEN {[p |-> v] : v \in ViewportPoints(s)}
  ELSE {[p |-> q]}

GuardRest == <<env, gl, preset, simParams, renderParams, loopHandle, timers, now,
               lastFrameStart, postprocess, pointProgram, simGlobal, simLocal, accumulate,
               frameIndex, respawnBoostFrames, respawnSeedsCache, respawnInViewFraction,
               lastView, out, disposed, accTrace>>

InitGuard ==
  /\ \E kernel \in {"respawn", "plain"} : WorkerFields(kernel)
  /\ env = "none"
  /\ accumulate = NULL
  /\ accTrace = NoTrace

GuardNew(prob, seeds, view) ==
  /\ cmd = "none"
  /\ variant = "plain" => prob = RZero /\ seeds = <<>>
  /\ sim' = setView(setRespawnSeeds(setRespawnProb(
                      NewSim(1, 42, IF variant = "plain" THEN "single" ELSE "local", 1),
                      prob), seeds), view)
  /\ cmd' = "new"
  /\ UNCHANGED <<timerVars, uiVars, variant, ops, GuardRest>>

\* one sub-iteration whose affine/warp result is q, for a particle of the given age;
\* the respawning kernel has no u_useGuard and always guards
GuardSubIter(useGuard, q, age) ==
  /\ sim # NULL
  /\ variant = "respawn" => useGuard
  /\ \E w \in (IF variant = "respawn" THEN RespawnTail(sim, q, age, MaxAge)
               ELSE PlainTail(sim, useGuard, q)) :
       ops' = <<[useGuard |-> useGuard, q |-> q, written |-> w]>>
  /\ cmd' = "subIter"
  /\ UNCHANGED <<timerVars, uiVars, variant, sim, GuardRest>>

NextGuard ==
  \/ \E prob \in {RZero, ROne}, seeds \in {<<>>, <<Particle(0, 0, 0)>>}, view \in InputViews :
       GuardNew(prob, seeds, view)
  \/ \E useGuard \in BOOLEAN, x \in Coords, y \in Coords, age \in 0..MaxAge :
       GuardSubIter(useGuard, Point(x, y), age)

SpecGuard == InitGuard /\ [][NextGuard]_vars

\* C18: with the guard enabled, a sub-iteration whose affine/warp result has a NaN or
\* infinite coordinate writes a finite position and, where the kernel keeps an age,
\* age 0.
C18_Guard ==
  (/\ cmd = "subIter"
   /\ ops[1].useGuard
   /\ ~IsFinite(ops[1].q.x) \/ ~IsFinite(ops[1].q.y))
  => /\ IsFinite(ops[1].written.p.x)
     /\ IsFinite(ops[1].written.p.y)
     /\ variant = "respawn" => ops[1].written.age = 0

----------------------------------------------------------------------------
(* SpecSplat: one tick of either worker on one age-keeping particle store of one     *)
(* particle: a step of one sub-iteration, then the worker's draw into the            *)
(* AccumulatePass.  The dual-population worker binds a_age and uploads               *)
(* u_burnInFrames; the scheduler worker binds the position only and uploads no       *)
(* u_burnInFrames, so its point program reads age 0 and burn-in 0.                   *)

BurnIns == {1, 2}
SplatAges == MaxAge + 1            \* ages are told apart up to here

InitSplat ==
  /\ \E worker \in {"dual", "sched"} : WorkerFields(worker)
  /\ env = "none"
  /\ accumulate = NULL
  /\ accTrace = NoTrace

\* init: the store (recreateSim / recreateSims), the AccumulatePass, frameIndex = 0
SplatInit(view, burnIn) ==
  /\ cmd = "none"
  /\ preset' = Preset("mapsA", view)
  /\ simParams' = [SimParams(1, 1) EXCEPT !.burnIn = burnIn]
  /\ sim' = setView(NewSim(1, 42, "local", 1), view)
  /\ accumulate' = NewAccumulatePass
  /\ frameIndex' = 0
  /\ cmd' = "init"
  /\ UNCHANGED <<timerVars, uiVars, variant, env, gl, renderParams, loopHandle, timers, now, lastFrameStart,
                 postprocess, pointProgram, simGlobal, simLocal, respawnBoostFrames,
                 respawnSeedsCache, respawnInViewFraction, lastView, out, ops, disposed,
                 accTrace>>

\* a tick whose sub-iteration has the affine/warp result q.  The dual-population worker
\* counts the frame before its gate and draws through the age test; the scheduler
\* worker gates on the frame count alone and counts after the draw.
SplatTick(q, decay) ==
  /\ sim # NULL
  /\ frameIndex < MaxFrame
  /\ \E w \in RespawnTail(sim, q, Particles(sim)[1].age, SplatAges) :
       LET parts == <<Particle(w.p.x.v, w.p.y.v, w.age)>>
           gate == IF variant = "dual" THEN frameIndex + 1 >= simParams.burnIn
                   ELSE frameIndex >= simParams.burnIn
           drawn == IF ~gate THEN {}
                    ELSE IF variant = "dual"
                      THEN Splatted(parts, preset.view, simParams.burnIn)
                      ELSE Splatted(parts, preset.view, 0)
       IN /\ sim' = step(sim, parts)
          /\ accumulate' = endFrame(drawPoints(beginFrame(accumulate, decay),
                                               Cardinality(drawn)))
          /\ ops' = <<[drawn |-> drawn]>>
  /\ frameIndex' = frameIndex + 1
  /\ cmd' = "tick"
  /\ UNCHANGED <<timerVars, uiVars, variant, env, gl, preset, simParams, renderParams, loopHandle, timers,
                 now, lastFrameStart, postprocess, pointProgram, simGlobal, simLocal,
                 respawnBoostFrames, respawnSeedsCache, respawnInViewFraction, lastView,
                 out, disposed, accTrace>>

NextSplat ==
  \/ \E view \in InputViews, burnIn \in BurnIns : SplatInit(view, burnIn)
  \/ \E x \in {Fin(0), Fin(2), NaN}, y \in {Fin(0), NaN}, decay \in {0, 2} :
       SplatTick(Point(x, y), decay)

SpecSplat == InitSplat /\ [][NextSplat]_vars

\* C19: on every tick, every particle the draw splats has age >= burn-in.
C19_BurnInGate ==
  cmd = "tick" => \A i \in ops[1].drawn : Particles(sim)[i].age >= simParams.burnIn

----------------------------------------------------------------------------
(* The fitted view: claims checked under Spec *)

\* the bounds the store of the scheduler worker gives, and their larger side
FitBounds == sampleBounds(sim)
FitExtent ==
  Max(FitBounds.max.x - FitBounds.min.x, FitBounds.max.y - FitBounds.min.y)
FitDone == cmd = "fitView" /\ sim # NULL /\ preset # NULL
\* offset = -center * scale, a sampled point lies within 1 / 1.2 of the centre of clip
\* space on both axes, and bounds (-1,-1)..(1,1) give scale 2 / 2 / 1.2, offset (0, 0)
FitPlaced ==
  /\ 2 * preset.view.offset.x = -((FitBounds.max.x + FitBounds.min.x) * preset.view.scale)
  /\ 2 * preset.view.offset.y = -((FitBounds.max.y + FitBounds.min.y) * preset.view.scale)
  /\ \A i \in 1..Len(Particles(sim)) :
       /\ 12 * Abs(ClipX(Particles(sim)[i], preset.view.scale, preset.view.offset))
            <= 10 * ViewDen
       /\ 12 * Abs(ClipY(Particles(sim)[i], preset.view.scale, preset.view.offset))
            <= 10 * ViewDen
  /\ FitOf([min |-> [x |-> -1, y |-> -1], max |-> [x |-> 1, y |-> 1]]) = View(10, 0, 0)

----------------------------------------------------------------------------
(* fitView requests; claims checked under Spec *)

\* C21: a fitView(warmup) served by a live particle store runs exactly warmup kernel
\* steps, fits the view to the bounds of the particles those steps left, and posts
\* fitResult if and only if the fitted view differs from the view held before; when
\* the view is unchanged nothing is posted and the accumulation is left as it was.
C21_FitRequest ==
  [][\A w \in Warmups :
       (SchedFitView(w) /\ sim # NULL /\ preset # NULL /\ SimLive(sim)) =>
         /\ Count(ops', "step") = w /\ Len(ops') = w
         /\ preset'.view = FitOf(sampleBounds(sim'))
         /\ (out' = <<"fitResult">>) <=> (preset'.view # preset.view)
         /\ (preset'.view = preset.view) => (out' = <<>> /\ accumulate' = accumulate)]_vars

\* a fitView that ran a warmup step and left the view as it was
C21_Witness ==
  /\ cmd = "fitView" /\ Count(ops, "step") = 1 /\ out = <<>>
  /\ sim # NULL /\ preset # NULL /\ preset.view = FitOf(sampleBounds(sim))

----------------------------------------------------------------------------
(* Decay and splat passes of a tick; claim checked under Spec *)

\* C22: a fired tick that starts past the burn-in frames and runs N kernel steps issues
\* N decay passes and N splats, one decay+splat cycle for each kernel step.
C22_CyclePerStep ==
  (/\ cmd = "tick" /\ Count(ops, "step") >= 1
   /\ frameIndex - Count(ops, "step") >= simParams.burnIn)
    => /\ Count(ops, "decay") = Count(ops, "step")
       /\ Count(ops, "splat") = Count(ops, "step")

----------------------------------------------------------------------------
(* SpecAlloc: the scheduler worker on a device whose allocations can fail.  A creation *)
(* is followed either to its success (the handlers above) or to the throw of           *)
(* createTexture / createFbo / initBuffers (the handlers below); "createFailed" in ops *)
(* marks the handler in which a creation threw.                                         *)

\* init whose recreateSim throws in the TransformFeedbackSim constructor: the try block
\* of init is left for its catch, which posts the error
InitExhausted(p, sp, rp) ==
  /\ variant = "sched"
  /\ env # "context"
  /\ cmd' = "init"
  /\ preset' = p /\ simParams' = sp /\ renderParams' = rp
  /\ lastView' = p.view
  /\ gl' = TRUE
  /\ disposed' = FALSE
  /\ postprocess' = "live"
  /\ accumulate' = NewAccumulatePass
  /\ sim' = DisposeSim(sim)
  /\ out' = <<"error">>
  /\ ops' = <<"createFailed">>
  /\ UNCHANGED <<timerVars, uiVars, variant, env, loopHandle, timers, now, lastFrameStart, pointProgram,
                 simGlobal, simLocal, frameIndex, respawnBoostFrames, respawnSeedsCache,
                 respawnInViewFraction, accTrace>>

\* updateConfig whose recreateSim throws in the TransformFeedbackSim constructor: the
\* three settings are stored, the old store is disposed, and the exception leaves the
\* handler and onmessage, neither of which catches it
UpdateConfigExhausted(p, sp, rp) ==
  LET simChanged == \/ simParams = NULL
                    \/ simParams.numPoints # sp.numPoints
                    \/ simParams.seed # sp.seed
                    \/ simParams.burnIn # sp.burnIn
  IN /\ variant = "sched"
     /\ gl
     /\ simChanged \/ sim = NULL
     /\ cmd' = "updateConfig"
     /\ preset' = p /\ simParams' = sp /\ renderParams' = rp
     /\ sim' = DisposeSim(sim)
     /\ out' = <<>>
     /\ ops' = <<"createFailed">>
     /\ UNCHANGED <<timerVars, uiVars, variant, env, gl, loopHandle, timers, now, lastFrameStart, postprocess,
                    pointProgram, simGlobal, simLocal, accumulate, frameIndex,
                    respawnBoostFrames, respawnSeedsCache, respawnInViewFraction,
                    lastView, disposed, accTrace>>

\* resize whose AccumulatePass.resize throws in createTargets, after disposeTextures:
\* the exception leaves resize and onmessage uncaught
ResizeExhausted ==
  /\ variant = "sched"
  /\ accumulate # NULL
  /\ cmd' = "resize"
  /\ accumulate' = disposeTextures(accumulate)
  /\ out' = <<>>
  /\ ops' = <<"createFailed">>
  /\ UNCHANGED <<timerVars, uiVars, variant, env, gl, preset, simParams, renderParams, loopHandle, timers, now,
                 lastFrameStart, postprocess, pointProgram, sim, simGlobal, simLocal,
                 frameIndex, respawnBoostFrames, respawnSeedsCache,
                 respawnInViewFraction, lastView, disposed, accTrace>>

\* no frame is followed on a worker left without textures or with a disposed store
Intact ==
  /\ IF accumulate = NULL THEN TRUE ELSE accumulate.textures
  /\ IF sim = NULL THEN TRUE ELSE SimLive(sim)

NextAlloc ==
  \/ \E p \in Presets, sp \in SimParamsSet, rp \in RenderParamsSet :
       SchedInit(p, sp, rp) /\ UNCHANGED uiVars
  \/ \E p \in Presets, sp \in SimParamsSet, rp \in RenderParamsSet :
       InitExhausted(p, sp, rp)
  \/ \E p \in Presets, sp \in SimParamsSet, rp \in RenderParamsSet :
       SchedUpdateConfig(p, sp, rp) /\ UNCHANGED uiVars
  \/ \E p \in Presets, sp \in SimParamsSet, rp \in RenderParamsSet :
       UpdateConfigExhausted(p, sp, rp)
  \/ variant = "sched" /\ WorkerResize
  \/ ResizeExhausted
  \/ SchedDispose
  \/ Intact /\ SchedTick
  \/ Advance

SpecAlloc == InitSched /\ [][NextAlloc]_vars

\* C23: whenever the creation of particle buffers or accumulation textures fails, in
\* init, in resize or in an updateConfig that recreates the buffers, the handler posts
\* an error event for it.
C23_CreationError ==
  Count(ops, "createFailed") > 0 => out = <<"error">>

----------------------------------------------------------------------------
(* SpecImport: the scheduler worker behind the UI's preset state.  Every preset the UI *)
(* holds went through clampPreset; it reaches the worker as an updateConfig.  Messages *)
(* are delivered at once, so the view a wheel event zooms from is the worker's.        *)

\* clampPreset, as far as the view goes: a missing view becomes the default view and a
\* view that is present is passed on as it is
clampPreset(p) == [p EXCEPT !.view = IF p.view = NULL THEN DefaultView ELSE p.view]

\* the views of the preset files of the model: none, scale 1, scale 0, scale -1
ImportViews == {NULL, DefaultView, View(0, 0, 0), View(-ViewDen, 0, 0)}
ImportFiles == {Preset("mapsA", v) : v \in ImportViews}

WheelFloor == 1                    \* the floor 0.0001 of onWheel: the least positive scale
MaxWheelScale == 2 * ViewDen       \* wheel events are followed up to scale 2

\* onWheel at the centre of the canvas (clip (0, 0)):
\* newScale = max(0.0001, oldScale * zoom), newOffset = clip - world * newScale
onWheel(view, zoomIn) ==
  LET newScale == IF zoomIn THEN Max(WheelFloor, view.scale * 2)
                  ELSE Max(WheelFloor, view.scale \div 2)
  IN View(newScale, (view.offset.x * newScale) \div view.scale,
          (view.offset.y * newScale) \div view.scale)

\* handleImport: setPreset(clampPreset(parsed)), sent on as updateConfig
ImportPreset(file) ==
  /\ Serving
  /\ SchedUpdateConfig(clampPreset(file), simParams, renderParams)
  /\ UNCHANGED uiVars

\* a wheel event: handleViewChange stores clampPreset({...prev, view}), sent on as
\* updateConfig; with oldScale = 0 the new offset is not a number and is not followed
WheelZoom(zoomIn) ==
  /\ Serving
  /\ preset.view.scale # 0
  /\ Abs(preset.view.scale) <= MaxWheelScale
  /\ onWheel(preset.view, zoomIn).scale <= MaxWheelScale
  /\ SchedUpdateConfig(clampPreset([preset EXCEPT !.view = onWheel(preset.view, zoomIn)]),
                       simParams, renderParams)
  /\ UNCHANGED uiVars

NextImport ==
  \/ cmd = "none" /\ \E sp \in SimParamsSet, rp \in RenderParamsSet :
                       SchedInit(clampPreset(Preset("mapsA", DefaultView)), sp, rp)
                       /\ UNCHANGED uiVars
  \/ \E file \in ImportFiles : ImportPreset(file)
  \/ \E zoomIn \in BOOLEAN : WheelZoom(zoomIn)
  \/ Serving /\ \E w \in Warmups : SchedFitView(w) /\ UNCHANGED uiVars
  \/ SchedTick
  \/ Advance

SpecImport == InitSched /\ [][NextImport]_vars

\* C24: in every reachable state the view held by the worker and the view uploaded to
\* the kernel have scale > 0.
C24_ScalePositive ==
  /\ preset # NULL => preset.view.scale > 0
  /\ sim # NULL => sim.viewScale > 0

----------------------------------------------------------------------------
(* SpecDecay: one pixel of the two accumulation textures in the format of the          *)
(* scheduler worker, R8 (createTexture with useFloat unset): a stored value is one of  *)
(* the levels 0..255 and stands for level / 255.                                       *)

Unorm8Max == 2^8 - 1

\* renderParams.decay after clampRender: 0, 1/2, 0.99 (the default) and 1
DecayFactors == {<<0, 1>>, <<1, 2>>, <<99, 100>>, <<1, 1>>}

\* accumulateDecay.frag: fragColor = u_decay * texture(u_prev, v_uv), in levels
decayFrag(decay, level) == <<decay[1] * level, decay[2]>>

\* the write of a fragment to an R8 attachment: clamped to [0, 1] and converted to one
\* of the two levels nearest to it (rounding to nearest is preferred, not required)
StoreUnorm8(q) ==
  LET lo == Min(Unorm8Max, Max(0, q[1] \div q[2]))
      hi == Min(Unorm8Max, IF q[1] % q[2] = 0 THEN lo ELSE lo + 1)
  IN {lo, hi}

InitDecay ==
  /\ WorkerFields("pixel")
  /\ env = "none"
  /\ \E level \in 0..Unorm8Max :
       accumulate = [NewAccumulatePass EXCEPT !.tex[0] = level]
  /\ accTrace = NoTrace

\* beginFrame(decay) on the pixel, no splat following
DecayPass(decay) ==
  /\ cmd' = "beginFrame"
  /\ \E level \in StoreUnorm8(decayFrag(decay, accumulate.tex[accumulate.readIndex])) :
       accumulate' = [accumulate EXCEPT !.tex[WriteIndex(accumulate)] = level]
  /\ UNCHANGED <<timerVars, uiVars, variant, env, gl, preset, simParams, renderParams, loopHandle, timers,
                 now, lastFrameStart, postprocess, pointProgram, sim, simGlobal,
                 simLocal, frameIndex, respawnBoostFrames, respawnSeedsCache,
                 respawnInViewFraction, lastView, disposed, accTrace>>
  /\ out' = <<>> /\ ops' = <<>>

\* endFrame
SwapPass ==
  /\ cmd = "beginFrame"
  /\ cmd' = "endFrame"
  /\ accumulate' = endFrame(accumulate)
  /\ UNCHANGED <<timerVars, uiVars, variant, env, gl, preset, simParams, renderParams, loopHandle, timers,
                 now, lastFrameStart, postprocess, pointProgram, sim, simGlobal,
                 simLocal, frameIndex, respawnBoostFrames, respawnSeedsCache,
                 respawnInViewFraction, lastView, disposed, accTrace>>
  /\ out' = <<>> /\ ops' = <<>>

NextDecay ==
  \/ \E decay \in DecayFactors : DecayPass(decay)
  \/ SwapPass

SpecDecay == InitDecay /\ [][NextDecay]_vars

\* C25: a decay pass with no splat leaves decay x read in the write texture: with
\* decay < 1 a stored positive value strictly decreases, and with decay = 1 the value
\* is the one read.
C25_DecayPass ==
  [][\A decay \in DecayFactors :
       DecayPass(decay) =>
         LET read == accumulate.tex[accumulate.readIndex]
             wrote == accumulate'.tex[WriteIndex(accumulate)]
         IN /\ (RLess(decay, ROne) /\ read > 0) => wrote < read
            /\ decay = ROne => wrote = read]_vars

----------------------------------------------------------------------------
(* SpecPingPong: one TransformFeedbackSim driven through setMaps, setView, step and    *)
(* its three readers.  accTrace.wrote is the index of the buffer the last step bound   *)
(* as transform feedback target, accTrace.sampled the index of the buffer the last     *)
(* reader bound, and out holds what that reader got.                                   *)

IterCounts == {1, 2}                   \* itersPerStep

PingPongRest == <<timerVars, uiVars, variant, env, gl, preset, simParams, renderParams, loopHandle, timers,
                  now, lastFrameStart, postprocess, pointProgram, simGlobal, simLocal,
                  accumulate, frameIndex, respawnBoostFrames, respawnSeedsCache,
                  respawnInViewFraction, lastView, ops, disposed>>

InitPingPong ==
  /\ WorkerFields("pingpong")
  /\ env = "none"
  /\ accumulate = NULL
  /\ accTrace = NoTrace

SimNew(n, maps, iters) ==
  /\ cmd = "none"
  /\ sim' = setMaps(NewSim(n, 42, "single", iters), maps)
  /\ cmd' = "new"
  /\ out' = <<>>
  /\ UNCHANGED <<accTrace, PingPongRest>>

SimSetMaps(maps) ==
  /\ sim # NULL
  /\ sim' = setMaps(sim, maps)
  /\ cmd' = "setMaps"
  /\ out' = <<>>
  /\ UNCHANGED <<accTrace, PingPongRest>>

SimSetView(view) ==
  /\ sim # NULL
  /\ sim' = setView(sim, view)
  /\ cmd' = "setView"
  /\ out' = <<>>
  /\ UNCHANGED <<accTrace, PingPongRest>>

SimStep ==
  /\ sim # NULL
  /\ \E b \in StepOutcomes(sim) : sim' = step(sim, b)
  /\ accTrace' = [accTrace EXCEPT !.op = "step", !.wrote = (sim.readIndex + 1) % 2]
  /\ cmd' = "step"
  /\ out' = <<>>
  /\ UNCHANGED PingPongRest

\* bindForRender, sampleBounds, samplePositions: each binds buffers[readIndex]
SimRead(reader) ==
  /\ sim # NULL
  /\ cmd' = reader
  /\ accTrace' = [accTrace EXCEPT !.op = reader, !.sampled = sim.readIndex]
  /\ out' = IF reader = "sampleBounds" THEN <<sampleBounds(sim)>> ELSE <<Particles(sim)>>
  /\ UNCHANGED <<sim, PingPongRest>>

Readers == {"bindForRender", "sampleBounds", "samplePositions"}

NextPingPong ==
  \/ \E n \in PointCounts, maps \in MapSets, iters \in IterCounts : SimNew(n, maps, iters)
  \/ \E maps \in MapSets : SimSetMaps(maps)
  \/ \E view \in InputViews : SimSetView(view)
  \/ SimStep
  \/ \E reader \in Readers : SimRead(reader)

SpecPingPong == InitPingPong /\ [][NextPingPong]_vars

\* the buffer written last: the target of the last step, or the initial upload
LastWritten == IF accTrace.wrote = NoTex THEN 0 ELSE accTrace.wrote

\* C26: a step reads buffers[readIndex], writes what all itersPerStep sub-iterations
\* give to the other buffer and flips readIndex once; the readers read the buffer
\* written last; setView and setMaps leave the buffers and readIndex as they were.
C26_PingPongOnce ==
  [][/\ cmd' = "step" =>
          /\ sim'.readIndex = (sim.readIndex + 1) % 2
          /\ sim'.buf[sim.readIndex] = sim.buf[sim.readIndex]
          /\ sim'.buf[sim'.readIndex] \in Outcomes(sim, sim.buf[sim.readIndex], 1)
     /\ cmd' \in Readers =>
          /\ accTrace'.sampled = LastWritten
          /\ out' = IF cmd' = "sampleBounds"
                    THEN <<sampleBounds([sim EXCEPT !.readIndex = LastWritten])>>
                    ELSE <<sim.buf[LastWritten]>>
          /\ sim' = sim
     /\ cmd' \in {"setView", "setMaps"} =>
          /\ sim'.buf = sim.buf
          /\ sim'.readIndex = sim.readIndex]_vars

\* a reader ran after a step of two sub-iterations
C26_Witness ==
  /\ cmd \in Readers /\ accTrace.wrote = 1 /\ accTrace.sampled = 1
  /\ sim # NULL /\ sim.itersPerStep = 2

----------------------------------------------------------------------------
(* The cached seed pool; claim checked under SpecSeeds *)

\* no sampled particle of either population qualifies as a seed under the view
NoSeeds ==
  \A q \in Members(Particles(simLocal)) \cup Members(Particles(simGlobal)) :
    ~InView(q, preset.view)

\* the step creates the particle stores anew (recreateSims)
Recreates ==
  \/ cmd' = "init"
  \/ /\ cmd' = "updateConfig"
     /\ \/ simParams'.numPoints # simParams.numPoints
        \/ simParams'.seed # simParams.seed
        \/ simParams'.burnIn # simParams.burnIn
        \/ simGlobal.numPoints # NumGlobal(simParams'.numPoints)
        \/ simLocal.numPoints # NumLocal(simParams'.numPoints)

----------------------------------------------------------------------------
(* updateConfig with nothing to invalidate; claim checked under SpecWorkers *)

\* the buffer contents and read index of a particle store (none for a null store)
Store(s) == IF s = NULL THEN <<>> ELSE <<s.buffers, s.buf, s.readIndex>>

\* the step is an updateConfig whose maps, view, numPoints, seed and burnIn are the
\* current ones
SameConfig ==
  /\ cmd' = "updateConfig"
  /\ preset # NULL /\ simParams # NULL
  /\ preset'.maps = preset.maps
  /\ preset'.view = preset.view
  /\ simParams'.numPoints = simParams.numPoints
  /\ simParams'.seed = simParams.seed
  /\ simParams'.burnIn = simParams.burnIn

\* C28: an updateConfig whose maps, view, numPoints, seed and burnIn equal the current
\* ones leaves the particle buffers, the accumulated density, frameIndex and the
\* respawn boost counter as they were.
C28_SameConfig ==
  [][SameConfig =>
       /\ Store(sim') = Store(sim)
       /\ Store(simGlobal') = Store(simGlobal)
       /\ Store(simLocal') = Store(simLocal)
       /\ accumulate' = accumulate
       /\ frameIndex' = frameIndex
       /\ respawnBoostFrames' = respawnBoostFrames]_vars

\* the scheduler worker after an updateConfig that kept the frame count, the density
\* and particles that have left the initial scatter
C28_Witness ==
  /\ variant = "sched" /\ cmd = "updateConfig"
  /\ frameIndex > 0
  /\ accumulate # NULL /\ accumulate.tex[accumulate.readIndex] > 0
  /\ sim # NULL /\ SimLive(sim) /\ Particles(sim) # Scatter(sim.numPoints)

----------------------------------------------------------------------------
(* The scheduler worker in a browser that offers the timer-query extension *)

InitTimers ==
  /\ WorkerState("sched")
  /\ NoUi
  /\ env = TimerEnv
  /\ accumulate = NULL
  /\ accTrace = NoTrace

NextTimers ==
  \/ \E rp \in RenderParamsSet :
       SchedInit(Preset("mapsA", DefaultView), SimParams(1, 0), rp) /\ UNCHANGED uiVars
  \/ SchedTick
  \/ Advance
  \/ GpuFinish
  \/ SchedDispose

SpecTimers == InitTimers /\ [][NextTimers]_vars

\* the number of times query q occurs in pendingTimerQueries
PendingCount(q) ==
  Cardinality({i \in 1..Len(pendingTimerQueries) : pendingTimerQueries[i] = q})

\* C29: every timer query begun was ended and appended to the pending list once; a poll
\* that finds its result unavailable leaves it pending and undeleted; a poll that finds
\* it available removes it and deletes it exactly once, recording one sample, and none
\* when the measurement is disjoint; no query is deleted twice or sampled twice; after
\* dispose the pending list is empty.
C29_TimerQueries ==
  /\ \A q \in 1..Len(glQueries) :
       LET query == glQueries[q]
       IN /\ query.state # "active"
          /\ query.deleted <= 1 /\ query.samples <= 1
          /\ PendingCount(q) = (IF query.deleted = 0 THEN 1 ELSE 0)
          /\ PendingCount(q) = 1 => query.polled \in {"never", "unavailable"}
          /\ query.polled = "unavailable" => PendingCount(q) = 1 \/ query.byDispose
          /\ query.polled = "ok" => query.deleted = 1 /\ query.samples = 1
          /\ query.polled = "disjoint" => query.deleted = 1 /\ query.samples = 0
          /\ query.samples = 1 => query.polled = "ok"
          /\ (q \in DOMAIN gpuTimerLabel) = (PendingCount(q) = 1)
  /\ cmd = "dispose" => pendingTimerQueries = <<>> /\ gpuTimerLabel = <<>>

\* dispose has run after polls that read one query as available (one sample), one as
\* disjoint (deleted without a sample) and one as unavailable (pending until dispose)
C29_Witness ==
  /\ cmd = "dispose"
  /\ \E a, b, c \in 1..Len(glQueries) :
       /\ glQueries[a].polled = "ok" /\ glQueries[a].samples = 1
       /\ glQueries[b].polled = "disjoint" /\ glQueries[b].deleted = 1
       /\ glQueries[c].polled = "unavailable" /\ glQueries[c].byDispose
       /\ glQueries[c].deleted = 1

----------------------------------------------------------------------------
(* The UI (App, Canvas) and the scheduler worker, with the messages between them *)

MaxInFlight == 2       \* messages posted and not yet handled, in either direction

Message(type, p) == [type |-> type, preset |-> p]
SyncSim == SimParams(1, 0)

\* the mount effects of Canvas: the worker is created, 'init' is posted with the UI's
\* preset and the updateConfig effect arms its first debounce timer
InitSync ==
  /\ env \in FailStages
  /\ WorkerState("sched")
  /\ accumulate = NULL
  /\ accTrace = NoTrace
  /\ uiPreset \in {Preset("mapsA", v) : v \in InputViews}
  /\ updateTimer = TRUE
  /\ toWorker = <<Message("init", uiPreset)>>
  /\ toMain = <<>>

\* handleViewChange(view): setPreset(prev => clampPreset({...prev, view})); the new preset
\* re-runs the updateConfig effect, which clears the pending timer and arms a new one
handleViewChange(view) ==
  /\ uiPreset' = clampPreset([uiPreset EXCEPT !.view = view])
  /\ updateTimer' = TRUE

\* a pan or zoom gesture: updateView(scale, offset) calls onViewChange
UiViewChange(view) ==
  /\ handleViewChange(view)
  /\ UNCHANGED <<toWorker, toMain, timerVars, rendererVars, accumulate, accTrace>>

\* handleFitView: the fitView effect posts { type: 'fitView', warmup: 0 }
UiFitView ==
  /\ Len(toWorker) < MaxInFlight
  /\ toWorker' = Append(toWorker, Message("fitView", NULL))
  /\ UNCHANGED <<uiPreset, updateTimer, toMain, timerVars, rendererVars, accumulate,
                 accTrace>>

\* the debounce timer fires: the updateConfig message carries the preset of the last
\* render
DebounceFire ==
  /\ updateTimer
  /\ Len(toWorker) < MaxInFlight
  /\ toWorker' = Append(toWorker, Message("updateConfig", uiPreset))
  /\ updateTimer' = FALSE
  /\ UNCHANGED <<uiPreset, toMain, timerVars, rendererVars, accumulate, accTrace>>

\* worker.onmessage of Canvas, 'fitResult': onViewChange(msg.view)
UiReceive ==
  /\ toMain # <<>>
  /\ handleViewChange(Head(toMain).preset.view)
  /\ toMain' = Tail(toMain)
  /\ UNCHANGED <<toWorker, timerVars, rendererVars, accumulate, accTrace>>

\* self.onmessage of the worker on the oldest message; a fitResult it posts goes to the UI
WorkerReceive ==
  /\ toWorker # <<>>
  /\ Len(toMain) < MaxInFlight
  /\ LET msg == Head(toWorker)
     IN \E rp \in RenderParamsSet :
          IF msg.type = "init" THEN SchedInit(msg.preset, SyncSim, rp)
          ELSE IF msg.type = "updateConfig" THEN SchedUpdateConfig(msg.preset, SyncSim, rp)
          ELSE SchedFitView(0)
  /\ toWorker' = Tail(toWorker)
  /\ toMain' = IF out' = <<"fitResult">>
               THEN Append(toMain, Message("fitResult", preset'))
               ELSE toMain
  /\ UNCHANGED <<uiPreset, updateTimer>>

NextSync ==
  \/ \E view \in InputViews : UiViewChange(view)
  \/ UiFitView
  \/ DebounceFire
  \/ UiReceive
  \/ WorkerReceive
  \/ SchedTick
  \/ Advance

SpecSync == InitSync /\ [][NextSync]_vars

\* no debounce timer is pending and no message is in flight
Quiescent == ~updateTimer /\ toWorker = <<>> /\ toMain = <<>>

\* C30: whenever the debounce timer has fired and every message in both directions has
\* been handled, the worker's preset.view is the view of the UI's preset.
C30_ViewsAgree ==
  Quiescent => preset # NULL /\ preset.view = uiPreset.view

\* all is delivered after the UI took a fitted view from a fitResult and sent it back
C30_Witness ==
  /\ Quiescent
  /\ cmd = "updateConfig"
  /\ uiPreset.view \notin InputViews
  /\ preset.view = uiPreset.view

====
